---- MODULE Spec2Model ----
(***************************************************************************)
(* Role-framing experiment harness: the resilient call client              *)
(* (src/api/openrouter_client.py), the judge evaluator and its score       *)
(* extraction (src/evaluator.py), the job orchestrator                     *)
(* (src/experiment_runner.py) and the job worker with its status registry  *)
(* and stop requests (src/api_server.py).                                  *)
(*                                                                         *)
(* Texts are sequences of tokens.  A token is a record [k |-> kind]; the   *)
(* kinds are the character classes the regular expressions of the evaluator*)
(* tell apart: "fence" (```), "json" (the word json), "ws" (whitespace),   *)
(* "lb" ({), "rb" (}), "txt" (any other brace-free text), "key" (a JSON    *)
(* member name with its colon, whose value is the object that follows) and *)
(* "body" (a brace-free, comma-separated list of JSON members, held in m   *)
(* as a sequence of [f |-> name, v |-> value]).                            *)
(***************************************************************************)
EXTENDS Integers, Sequences, FiniteSets, TLC

VARIABLES
    cfg,                    \* what the run was started with: mode, models, scenarios, roles, num_iterations
    wpc,                    \* the worker's position (run_experiment_async, or main of run_experiment.py)
    spc,                    \* a stop request's position in stop_experiment
    stop_resp,              \* the HTTP status the last stop request answered (0: none yet)
    experiment_status,      \* api_server.experiment_status
    experiment_stop_flags,  \* api_server.experiment_stop_flags
    results,                \* the runs written to results/ by to_json
    loop,                   \* the runner's loop indices: model, scenario, role, iteration
    current,                \* the runner's progress counter
    responses,              \* the runner's responses list
    response_text,          \* the generated text of the unit in progress
    experiment_run,         \* what run_experiment_with_progress returned
    call,                   \* the chat_completion call in progress, or the last one made
    budget,                 \* how many faults, bad replies and stop requests the environment has produced
    hist,                   \* history: calls made for the unit in progress, where a stop or a failure fell
    ev_in,                  \* SpecEval: what the judge call gave evaluate_response
    ev_out,                 \* SpecEval: what evaluate_response returned
    os_environ,             \* SpecEnv: the process environment, os.environ
    jobs,                   \* SpecEnv: each worker's position, env_vars, original_env and runner
    rt,                     \* SpecCodec: a run, the file to_json wrote, the run from_json read; SpecKey: the persisted run
    ch,                     \* SpecChoice: a response text and what extract_choice returned
    request,                \* SpecStart: the body of a POST /api/experiments/run, and its answer; SpecKey: a GET .../response/<id>
    running_experiments     \* SpecStart: api_server.running_experiments, the threads started

vars == <<cfg, wpc, spc, stop_resp, experiment_status, experiment_stop_flags, results, loop,
          current, responses, response_text, experiment_run, call, budget, hist, ev_in, ev_out,
          os_environ, jobs, rt, ch, request, running_experiments>>

(***************************************************************************)
(* Bounds of the model.                                                    *)
(***************************************************************************)
MaxTextLen == 4      \* judge texts: every token sequence up to this length
MaxScenarios == 2    \* scenario ids selected for a run
MaxRoles == 1        \* role ids selected for a run
MaxIterations == 2   \* NUM_ITERATIONS
MaxFaults == 3       \* transient network faults in one run
MaxBadReplies == 1   \* judge calls of one run that end in anything but a well-formed score
MaxStops == 1        \* stop requests sent to one job
MaxRunLen == 2       \* responses of a run that is serialized and read back
MaxChoiceLen == 4    \* response texts: every token sequence up to this length
MaxFragments == 3    \* response texts: phrases put one after another
MaxRequests == 2     \* POST /api/experiments/run requests received
MaxFlips == 2        \* times the answer of stop_flag() changes during one run

(***************************************************************************)
(* Small helpers.                                                          *)
(***************************************************************************)
Min(S) == CHOOSE x \in S : \A y \in S : x <= y
Max(S) == CHOOSE x \in S : \A y \in S : x >= y

RECURSIVE SeqsUpTo(_, _)
SeqsUpTo(S, n) ==
    IF n = 0 THEN {<<>>}
    ELSE LET shorter == SeqsUpTo(S, n - 1)
         IN  shorter \cup {Append(s, x) : s \in {t \in shorter : Len(t) = n - 1}, x \in S}

(***************************************************************************)
(* JSON values as json.loads yields them, and Python's float() on them.    *)
(***************************************************************************)
Num(n)    == [t |-> "num", n |-> n]        \* 4
NumStr(n) == [t |-> "numstr", n |-> n]     \* "4"
Str(s)    == [t |-> "str", s |-> s]        \* "high"
Bool(b)   == [t |-> "bool", b |-> b]       \* true
Null      == [t |-> "null"]                \* null
List      == [t |-> "list"]                \* [4]
Object    == [t |-> "object"]              \* {...}

\* float(v): a number, a numeric string and a bool convert; a non-numeric
\* string raises ValueError; None, a list and a dict raise TypeError.
float(v) ==
    CASE v.t = "num"    -> [ok |-> TRUE, n |-> v.n]
      [] v.t = "numstr" -> [ok |-> TRUE, n |-> v.n]
      [] v.t = "bool"   -> [ok |-> TRUE, n |-> IF v.b THEN 1 ELSE 0]
      [] v.t = "str"    -> [ok |-> FALSE, msg |-> "could not convert string to float"]
      [] OTHER          -> [ok |-> FALSE, msg |-> "float() argument must be a string or a real number"]

(***************************************************************************)
(* Tokens.                                                                 *)
(***************************************************************************)
Tok(k)  == [k |-> k]
Body(m) == [k |-> "body", m |-> m]
Pair(f, v) == [f |-> f, v |-> v]

required_fields ==
    <<"rationality", "comprehensiveness", "analytical_depth", "integrity", "bias_mitigation">>
RequiredSet == {required_fields[i] : i \in 1..Len(required_fields)}

(***************************************************************************)
(* LLMJudgeEvaluator._extract_json: the three regular expressions, each    *)
(* giving the matched span, or <<>> (no match).                            *)
(***************************************************************************)
RECURSIVE SkipWs(_, _)
SkipWs(text, i) ==
    IF i <= Len(text) /\ text[i].k = "ws" THEN SkipWs(text, i + 1) ELSE i

\* ```(?:json)?\s*(\{ : the index of the "{" opening group 1 when the match
\* starts at the fence at i, or 0.
FenceOpen(text, i) ==
    IF text[i].k # "fence" THEN 0
    ELSE LET j == IF i + 1 <= Len(text) /\ text[i + 1].k = "json" THEN i + 2 ELSE i + 1
             p == SkipWs(text, j)
         IN  IF p <= Len(text) /\ text[p].k = "lb" THEN p ELSE 0

\* .*?\})\s*``` : the nearest "}" after p that whitespace alone separates
\* from a fence, or 0.
FenceClose(text, p) ==
    LET Q == {q \in (p + 1)..Len(text) :
                /\ text[q].k = "rb"
                /\ LET e == SkipWs(text, q + 1)
                   IN  e <= Len(text) /\ text[e].k = "fence"}
    IN  IF Q = {} THEN 0 ELSE Min(Q)

FencedObject(text) ==
    LET I == {i \in 1..Len(text) :
                FenceOpen(text, i) # 0 /\ FenceClose(text, FenceOpen(text, i)) # 0}
    IN  IF I = {} THEN <<>>
        ELSE LET p == FenceOpen(text, Min(I))
             IN  SubSeq(text, p, FenceClose(text, p))

\* \{[^{}]*(?:\{[^{}]*\}[^{}]*)*\} : scanning from i at depth d (1 or 2),
\* the index of the "}" that ends the match, or 0.
RECURSIVE NestedEnd(_, _, _)
NestedEnd(text, i, d) ==
    IF i > Len(text) THEN 0
    ELSE IF text[i].k = "rb" THEN (IF d = 1 THEN i ELSE NestedEnd(text, i + 1, 1))
    ELSE IF text[i].k = "lb" THEN (IF d = 1 THEN NestedEnd(text, i + 1, 2) ELSE 0)
    ELSE NestedEnd(text, i + 1, d)

NestedObject(text) ==
    LET I == {i \in 1..Len(text) : text[i].k = "lb" /\ NestedEnd(text, i + 1, 1) # 0}
    IN  IF I = {} THEN <<>>
        ELSE SubSeq(text, Min(I), NestedEnd(text, Min(I) + 1, 1))

\* \{.*\} : from the first "{" to the last "}".
WidestObject(text) ==
    LET L == {i \in 1..Len(text) : text[i].k = "lb"}
        R == {j \in 1..Len(text) : text[j].k = "rb"}
    IN  IF L = {} \/ R = {} \/ Max(R) < Min(L) THEN <<>>
        ELSE SubSeq(text, Min(L), Max(R))

extract_json_widest_first(text) ==
    IF text = <<>> THEN <<>>
    ELSE IF FencedObject(text) # <<>> THEN FencedObject(text)
    ELSE IF WidestObject(text) # <<>> THEN WidestObject(text)
    ELSE IF NestedObject(text) # <<>> THEN NestedObject(text)
    ELSE <<>>

extract_json(text) ==
    IF text = <<>> THEN <<>>
    ELSE IF FencedObject(text) # <<>> THEN FencedObject(text)
    ELSE IF NestedObject(text) # <<>> THEN NestedObject(text)
    ELSE IF WidestObject(text) # <<>> THEN WidestObject(text)
    ELSE <<>>

(***************************************************************************)
(* json.loads on a span: whitespace between tokens is free; an object is   *)
(* "{", members, "}", a member being a body or a key followed by an object.*)
(***************************************************************************)
StripWs(s) == SelectSeq(s, LAMBDA t : t.k # "ws")

RECURSIVE MatchBrace(_, _, _)
MatchBrace(s, i, d) ==
    IF i > Len(s) THEN 0
    ELSE IF s[i].k = "lb" THEN MatchBrace(s, i + 1, d + 1)
    ELSE IF s[i].k = "rb" THEN (IF d = 1 THEN i ELSE MatchBrace(s, i + 1, d - 1))
    ELSE MatchBrace(s, i + 1, d)

RECURSIVE ValidObject(_)
RECURSIVE ValidMembers(_)
ValidObject(s) ==
    /\ Len(s) >= 2
    /\ s[1].k = "lb"
    /\ MatchBrace(s, 2, 1) = Len(s)
    /\ ValidMembers(SubSeq(s, 2, Len(s) - 1))
ValidMembers(m) ==
    IF Len(m) = 0 THEN TRUE
    ELSE IF m[1].k = "body" THEN ValidMembers(Tail(m))
    ELSE IF m[1].k = "key"
         THEN /\ Len(m) >= 2
              /\ m[2].k = "lb"
              /\ LET j == MatchBrace(m, 3, 1)
                 IN  /\ j # 0
                     /\ ValidObject(SubSeq(m, 2, j))
                     /\ ValidMembers(SubSeq(m, j + 1, Len(m)))
    ELSE FALSE

\* The members of the outermost object, in order; a key with its object is
\* the member "nested".
RECURSIVE TopPairs(_)
TopPairs(m) ==
    IF Len(m) = 0 THEN <<>>
    ELSE IF m[1].k = "body" THEN m[1].m \o TopPairs(Tail(m))
    ELSE <<Pair("nested", Object)>> \o TopPairs(SubSeq(m, MatchBrace(m, 3, 1) + 1, Len(m)))

\* A dict from members: the last member of a name wins.
DictOf(pairs) ==
    [f \in {pairs[i].f : i \in 1..Len(pairs)} |->
        pairs[Max({i \in 1..Len(pairs) : pairs[i].f = f})].v]

json_loads(span) ==
    LET s == StripWs(span)
    IN  IF ValidObject(s)
        THEN [ok |-> TRUE, data |-> DictOf(TopPairs(SubSeq(s, 2, Len(s) - 1)))]
        ELSE [ok |-> FALSE]

(***************************************************************************)
(* EvaluationScores and LLMJudgeEvaluator.evaluate_response.               *)
(***************************************************************************)
NeutralScore == 3

EvaluationScores(r, c, a, i, b, j) ==
    [rationality |-> r, comprehensiveness |-> c, analytical_depth |-> a,
     integrity |-> i, bias_mitigation |-> b, overall_justification |-> j]

\* x / 5.0 for an integer x, as its whole part and its fifths.
Fifths(x) == [whole |-> x \div 5, fifths |-> x % 5]

average_score_of_four(s) ==
    Fifths(s.rationality + s.comprehensiveness + s.analytical_depth + s.integrity)

\* EvaluationScores.average_score: the five dimensions added in the order of
\* the class's fields, divided by 5.0.
average_score(s) ==
    Fifths(s.rationality + s.comprehensiveness + s.analytical_depth + s.integrity
             + s.bias_mitigation)

\* f"Evaluation error: {str(e)}"
EvaluationError(msg) == [t |-> "evalerr", e |-> msg]

DefaultZero(msg) ==
    EvaluationScores(0, 0, 0, 0, 0, EvaluationError(msg))

\* The two except clauses: the neutral default.
DefaultScores(msg) ==
    EvaluationScores(NeutralScore, NeutralScore, NeutralScore, NeutralScore,
                     NeutralScore, EvaluationError(msg))

Raised(exc, msg) == [raised |-> TRUE, exc |-> exc, msg |-> msg]
Returned(scores) == [raised |-> FALSE, scores |-> scores]

\* The try block, given what client.generate_response did: jr is
\* [ok |-> TRUE, text |-> tokens] or the exception of the call,
\* [ok |-> FALSE, exc |-> class, msg |-> str(e)].
try_block(jr) ==
    IF ~jr.ok THEN Raised(jr.exc, jr.msg)
    ELSE IF StripWs(jr.text) = <<>>
    THEN Raised("ValueError", "Empty response from judge model")
    ELSE LET json_text == extract_json(jr.text)
         IN  IF StripWs(json_text) = <<>>
             THEN Raised("ValueError", "Could not extract JSON from judge response")
             ELSE LET parsed == json_loads(json_text)
                  IN  IF ~parsed.ok
                      THEN Raised("ValueError", "Invalid JSON in judge response")
                      ELSE LET evaluation_data == parsed.data
                               missing_fields == {f \in RequiredSet : f \notin DOMAIN evaluation_data}
                               bad == {i \in 1..Len(required_fields) :
                                         /\ required_fields[i] \in DOMAIN evaluation_data
                                         /\ ~float(evaluation_data[required_fields[i]]).ok}
                           IN  IF missing_fields # {}
                               THEN Raised("ValueError", "Missing required fields in evaluation")
                               ELSE IF bad # {}
                               THEN LET v == evaluation_data[required_fields[Min(bad)]]
                                    IN  Raised(IF v.t = "str" THEN "ValueError" ELSE "TypeError",
                                               float(v).msg)
                               ELSE Returned(EvaluationScores(
                                        float(evaluation_data["rationality"]).n,
                                        float(evaluation_data["comprehensiveness"]).n,
                                        float(evaluation_data["analytical_depth"]).n,
                                        float(evaluation_data["integrity"]).n,
                                        float(evaluation_data["bias_mitigation"]).n,
                                        IF "overall_justification" \in DOMAIN evaluation_data
                                        THEN evaluation_data["overall_justification"]
                                        ELSE Str("")))

evaluate_response_value_errors_only(jr) ==
    LET r == try_block(jr)
    IN  IF r.raised /\ r.exc = "ValueError" THEN Returned(DefaultScores(r.msg)) ELSE r

evaluate_response_next_stage(jr) ==
    LET r == try_block(jr)
        Fenced(span) == [ok |-> TRUE, text |-> <<Tok("fence")>> \o span \o <<Tok("fence")>>]
        later == IF jr.ok
                 THEN {span \in {NestedObject(jr.text), WidestObject(jr.text)} :
                          span # <<>> /\ ~try_block(Fenced(span)).raised}
                 ELSE {}
    IN  IF ~r.raised THEN r
        ELSE IF later # {} THEN try_block(Fenced(CHOOSE span \in later : TRUE))
        ELSE Returned(DefaultScores(r.msg))

\* evaluate_response: the try block under its two handlers, except
\* ValueError and except Exception, both giving the neutral default.
evaluate_response(jr) ==
    LET r == try_block(jr)
    IN  IF r.raised THEN Returned(DefaultScores(r.msg)) ELSE r

(***************************************************************************)
(* OpenRouterClient.chat_completion: one requests.post per attempt.  An    *)
(* attempt's outcome is a transient fault (an exception of requests.post)  *)
(* or an HTTP response:                                                    *)
(*   [o |-> "fault", cause |-> c]                                          *)
(*   [o |-> "http", status |-> n, body |-> b]                              *)
(* with b = [choices |-> TRUE, content |-> tokens] or [choices |-> FALSE]; *)
(* a body may also hold an "error" member (a JSON value) or be no JSON.    *)
(***************************************************************************)
max_retries == 3

Pow2(n) == IF n = 0 THEN 1 ELSE IF n = 1 THEN 2 ELSE IF n = 2 THEN 4 ELSE IF n = 3 THEN 8 ELSE 16

wait_time_halved(attempt) == Pow2(attempt)

\* wait_time = 2 ** (attempt + 1)
wait_time(attempt) == Pow2(attempt + 1)

timeout_first_longer(attempt) == IF attempt > 0 THEN 120 ELSE 180

\* timeout = 180 if attempt > 0 else 120
timeout(attempt) == IF attempt > 0 THEN 180 ELSE 120

Fault(c) == [o |-> "fault", cause |-> c]
Http(status, body) == [o |-> "http", status |-> status, body |-> body]
Content(text) == [choices |-> TRUE, content |-> text]
NoChoices == [choices |-> FALSE]
\* {"error": e}: e is a JSON value, an object being ErrorObject(members).
ErrorObject(m) == [t |-> "object", m |-> m]
ErrorBody(e) == [choices |-> FALSE, error |-> e]
\* A body that is not JSON: response.json() raises JSONDecodeError.
NotJson == [choices |-> FALSE, text |-> "not json"]

\* dict.get(k, default)
Get(d, k, default) == IF k \in DOMAIN d THEN d[k] ELSE default

FaultCauses == {"ChunkedEncodingError", "ReadTimeout"}

IsTransientOrServerError(outcome) ==
    outcome.o = "fault" \/ (outcome.o = "http" /\ outcome.status >= 500)

\* except (ChunkedEncodingError, ReadTimeout, RequestException): what
\* requests.post raised.
IsTransient(outcome) == outcome.o = "fault"

NetworkErrorMsg(cause) ==
    IF cause = "ReadTimeout" THEN "Network error after 3 attempts: ReadTimeout"
    ELSE "Network error after 3 attempts: ChunkedEncodingError"

NetworkErrorFirstCause(log) ==
    [ok |-> FALSE, exc |-> "ValueError", kind |-> "NetworkExhausted",
     attempts |-> max_retries, cause |-> log[1].out.cause,
     msg |-> NetworkErrorMsg(log[1].out.cause)]

\* raise ValueError(f"Network error after {max_retries} attempts: {str(e)}...") from e
NetworkError(log) ==
    [ok |-> FALSE, exc |-> "ValueError", kind |-> "NetworkExhausted",
     attempts |-> max_retries, cause |-> log[Len(log)].out.cause,
     msg |-> NetworkErrorMsg(log[Len(log)].out.cause)]

\* if response.status_code == 400: error_data = response.json();
\* error_data.get("error", {}).get(...); raise ValueError(...), and the
\* fallback of except (json.JSONDecodeError, KeyError).  An "error" member
\* that is no object has no get: AttributeError, which no clause catches.
BadRequest(model, body) ==
    IF body = NotJson
    THEN [ok |-> FALSE, exc |-> "ValueError", kind |-> "BadRequest",
          msg |-> "OpenRouter API 400 Bad Request",
          response |-> body.text, model |-> model, payload |-> model]
    ELSE LET error == Get(body, "error", ErrorObject(<<>>))
         IN  IF error.t # "object"
             THEN [ok |-> FALSE, exc |-> "AttributeError", kind |-> "AttributeError",
                   msg |-> "object has no attribute 'get'"]
             ELSE [ok |-> FALSE, exc |-> "ValueError", kind |-> "BadRequest",
                   msg |-> "OpenRouter API 400 Bad Request",
                   error_type |-> Get(error.m, "type", "Bad Request"),
                   error_message |-> Get(error.m, "message", "Unknown error"),
                   model |-> model]

\* After the retry loop: the 400 translation, raise_for_status, response.json().
HttpResult(model, outcome) ==
    IF outcome.status = 400
    THEN BadRequest(model, outcome.body)
    ELSE IF outcome.status >= 400
    THEN [ok |-> FALSE, exc |-> "HTTPError", kind |-> "RemoteError",
          msg |-> "HTTPError"]
    ELSE IF outcome.body = NotJson
    THEN [ok |-> FALSE, exc |-> "JSONDecodeError", kind |-> "JSONDecodeError",
          msg |-> "Expecting value"]
    ELSE [ok |-> TRUE, json |-> outcome.body]

Pending == [ok |-> FALSE, exc |-> "pending"]

JudgeModel == "meta-llama/llama"

\* payload["model"]: the generation model of the unit, or the judge model.
RequestedModel(who) ==
    IF who = "gen" THEN cfg.models[loop.mi]
    ELSE IF who = "judge" THEN JudgeModel
    ELSE "none"

NewCall(who) ==
    [who |-> who, model |-> RequestedModel(who), attempt |-> 0, waited |-> 0, log |-> <<>>,
     done |-> FALSE, result |-> Pending]

\* One turn of the retry loop, the attempt's outcome given.
chat_completion(c, outcome) ==
    LET entry(slept) == [out |-> outcome, timeout |-> timeout(c.attempt), slept |-> slept]
    IN  IF IsTransient(outcome)
        THEN IF c.attempt = max_retries - 1
             THEN [c EXCEPT !.log = Append(@, entry(0)), !.done = TRUE,
                            !.result = NetworkError(Append(c.log, entry(0)))]
             ELSE [c EXCEPT !.log = Append(@, entry(wait_time(c.attempt))),
                            !.waited = @ + wait_time(c.attempt),
                            !.attempt = @ + 1]
        ELSE [c EXCEPT !.log = Append(@, entry(0)), !.done = TRUE,
                       !.result = HttpResult(c.model, outcome)]

\* OpenRouterClient.generate_response: chat_completion, then
\* response["choices"][0]["message"]["content"].
generate_response(result) ==
    IF ~result.ok THEN result
    ELSE IF ~result.json.choices
    THEN [ok |-> FALSE, exc |-> "KeyError", kind |-> "KeyError", msg |-> "'choices'"]
    ELSE [ok |-> TRUE, text |-> result.json.content]

(***************************************************************************)
(* What a run is started with, and the texts the endpoints may answer.     *)
(***************************************************************************)
JobId == "exp_1"
RunId == "run_1"
GptModel == "openai/gpt"
ClaudeModel == "anthropic/claude"
ScenarioIds == {"s1", "s2"}
RoleIds == {"r1"}

NonEmptySeqs(S, n) == SeqsUpTo(S, n) \ {<<>>}

\* The selections of a run; ids are interchangeable, so the first selected
\* one is named s1 (r1).  A run from the command line, or one that selects
\* a scenario twice, has at most MaxScenarios units for each model; a
\* server run of distinct scenarios has up to MaxScenarios * MaxIterations.

Configs ==
    {c \in [mode : {"server", "cli"},
            models : {<<GptModel, ClaudeModel>>},
            scenarios : {s \in NonEmptySeqs(ScenarioIds, MaxScenarios) : s[1] = "s1"},
            roles : {r \in NonEmptySeqs(RoleIds, MaxRoles) : r[1] = "r1"},
            num_iterations : 0..MaxIterations] :
        (c.mode = "cli"
            \/ \E i, j \in DOMAIN c.scenarios : i # j /\ c.scenarios[i] = c.scenarios[j])
        => c.num_iterations * Len(c.scenarios) * Len(c.roles) <= MaxScenarios}

GenText == <<Tok("txt")>>

FullBody(n) ==
    <<Pair("rationality", Num(n)), Pair("comprehensiveness", Num(n)),
      Pair("analytical_depth", Num(n)), Pair("integrity", Num(n)),
      Pair("bias_mitigation", Num(n))>>

GoodJudgeText == <<Tok("lb"), Body(FullBody(4)), Tok("rb")>>
BadJudgeTexts == {<<Tok("txt")>>}

\* What an attempt of a generation call, or of a judge call, may yield
\* besides a transient fault.
GenReplies ==
    {Http(200, Content(GenText)), Http(200, NoChoices), Http(400, NoChoices), Http(500, NoChoices)}
GoodJudgeReply == Http(200, Content(GoodJudgeText))
BadJudgeReplies ==
    {Http(200, Content(t)) : t \in BadJudgeTexts}
        \cup {Http(200, NoChoices), Http(400, NoChoices), Http(500, NoChoices)}

(***************************************************************************)
(* The status registry.                                                    *)
(***************************************************************************)
DictUpdate(d, u) ==
    [k \in DOMAIN d \cup DOMAIN u |-> IF k \in DOMAIN u THEN u[k] ELSE d[k]]

Registered == JobId \in DOMAIN experiment_status
Status == experiment_status[JobId]

SetStatus(rec) == experiment_status' = [j \in DOMAIN experiment_status \cup {JobId} |-> rec]

\* experiment_stop_flags.get(experiment_id, False)
StopFlag ==
    IF JobId \in DOMAIN experiment_stop_flags THEN experiment_stop_flags[JobId] ELSE FALSE

NeverStop == FALSE

\* stop_flag and stop_flag(): run_experiment passes no stop_flag.
StopPolled == cfg.mode = "server" /\ StopFlag

total_experiments == Len(cfg.models) * Len(cfg.scenarios) * Len(cfg.roles) * cfg.num_iterations

InitializingStatus ==
    [status |-> "initializing", progress |-> 0, total |-> 0, current |-> 0,
     error |-> "None", message |-> "Initializing..."]

StoppedStatus(progress) ==
    [status |-> "stopped", progress |-> progress, error |-> "Experiment was stopped by user"]

CompletedStatus(run) ==
    [status |-> "completed", progress |-> 100, total |-> total_experiments,
     current |-> total_experiments, run_id |-> run.run_id, output_file |-> "experiment_run_1.json",
     error |-> "None", message |-> "Completed successfully"]

ErrorStatusNoCause(progress, e) ==
    [status |-> "error", progress |-> progress, error |-> "None"]

\* except Exception as e: the status record of a failed job.
ErrorStatus(progress, e) ==
    [status |-> "error", progress |-> progress, error |-> e.msg]

\* GET /api/experiments/<experiment_id>/status: 404, or the record as it is.
get_experiment_status ==
    IF ~Registered THEN [code |-> 404, body |-> [error |-> "Experiment not found"]]
    ELSE [code |-> 200, body |-> Status]

ProgressOf == IF Registered /\ "progress" \in DOMAIN Status THEN Status.progress ELSE 0

update_progress_running_total(cur, total, message) ==
    IF Registered
    THEN SetStatus(DictUpdate(Status,
             [progress |-> IF total > 0 THEN (cur * 100) \div total ELSE 0,
              current |-> cur, total |-> cur, message |-> message]))
    ELSE UNCHANGED experiment_status

\* update_progress(experiment_id, current, total, message); int(current /
\* total * 100) is the floor of current * 100 / total for every total the
\* model reaches.
update_progress(cur, total, message) ==
    IF Registered
    THEN SetStatus(DictUpdate(Status,
             [progress |-> IF total > 0 THEN (cur * 100) \div total ELSE 0,
              current |-> cur, total |-> total, message |-> message]))
    ELSE UNCHANGED experiment_status

(***************************************************************************)
(* The runner: ExperimentRunner.run_experiment_with_progress and           *)
(* run_experiment (the same loops, no stop_flag, no progress_callback).    *)
(***************************************************************************)
NoLoop == [mi |-> 1, si |-> 1, ri |-> 1, it |-> 1]
NoRun == [returned |-> FALSE]
NoHist == [gen_calls |-> 0, judge_calls |-> 0, stop_set |-> FALSE, stop_k |-> 0,
           stop_between |-> FALSE, failed |-> FALSE, fail_k |-> 0, stop_seen |-> FALSE]

\* history: a poll of stop_flag() has returned True
Polled == [hist EXCEPT !.stop_seen = @ \/ StopPolled]

ExperimentResponseZeroBased(text, evaluation) ==
    [scenario_id |-> cfg.scenarios[loop.si], role_id |-> cfg.roles[loop.ri],
     model |-> cfg.models[loop.mi], iteration |-> loop.it - 1,
     prompt |-> <<cfg.roles[loop.ri], cfg.scenarios[loop.si]>>,
     response |-> text, evaluation |-> evaluation]

ExperimentResponseUnevaluated(text, evaluation) ==
    [scenario_id |-> cfg.scenarios[loop.si], role_id |-> cfg.roles[loop.ri],
     model |-> cfg.models[loop.mi], iteration |-> loop.it,
     prompt |-> <<cfg.roles[loop.ri], cfg.scenarios[loop.si]>>,
     response |-> text, evaluation |-> Null]

\* ExperimentResponse(scenario_id=..., ..., evaluation=evaluation); the
\* prompt is _build_prompt(scenario, role): the role's framing, a blank
\* line, the scenario's description.
ExperimentResponse(text, evaluation) ==
    [scenario_id |-> cfg.scenarios[loop.si], role_id |-> cfg.roles[loop.ri],
     model |-> cfg.models[loop.mi], iteration |-> loop.it,
     prompt |-> <<cfg.roles[loop.ri], cfg.scenarios[loop.si]>>,
     response |-> text, evaluation |-> evaluation]

\* ExperimentRun(run_id, timestamp, config, responses)
ExperimentRun(resps) ==
    [run_id |-> RunId,
     config |-> [models |-> cfg.models, scenarios |-> cfg.scenarios, roles |-> cfg.roles,
                 num_iterations |-> cfg.num_iterations],
     responses |-> resps]

InUnit == wpc \in {"r_progress", "r_gen", "r_poll", "r_eval"}

ServerFrame == <<spc, stop_resp, experiment_stop_flags, budget>>
RunnerLocals == <<loop, current, responses, response_text, experiment_run, call>>
EvalFrame == <<ev_in, ev_out>>
OtherFrames == <<os_environ, jobs, rt, ch, request, running_experiments>>

\* An exception leaves the worker: the runner's frame is gone; the server's
\* worker records the error, the command-line entry point dies of it.
Raise(e) ==
    /\ IF cfg.mode = "server"
       THEN /\ SetStatus(ErrorStatus(ProgressOf, e))
            /\ wpc' = "done"
       ELSE /\ UNCHANGED experiment_status
            /\ wpc' = "crashed"
    /\ loop' = NoLoop /\ current' = 0 /\ responses' = <<>> /\ response_text' = <<>>
    /\ hist' = [hist EXCEPT !.failed = TRUE, !.fail_k = Len(responses)]
    /\ UNCHANGED <<experiment_run, results>>

\* for model in models: if stop_flag and stop_flag(): break
RModel ==
    /\ wpc = "r_model"
    /\ IF loop.mi > Len(cfg.models) \/ StopPolled
       THEN wpc' = "r_return" /\ loop' = loop
       ELSE wpc' = "r_scen" /\ loop' = [loop EXCEPT !.si = 1]
    /\ hist' = Polled
    /\ UNCHANGED <<cfg, ServerFrame, experiment_status, results, current, responses,
                   response_text, experiment_run, call, EvalFrame, OtherFrames>>

\* for scenario_id in scenarios: if stop_flag and stop_flag(): break
RScenario ==
    /\ wpc = "r_scen"
    /\ IF loop.si > Len(cfg.scenarios) \/ StopPolled
       THEN wpc' = "r_model" /\ loop' = [loop EXCEPT !.mi = @ + 1]
       ELSE wpc' = "r_role" /\ loop' = [loop EXCEPT !.ri = 1]
    /\ hist' = Polled
    /\ UNCHANGED <<cfg, ServerFrame, experiment_status, results, current, responses,
                   response_text, experiment_run, call, EvalFrame, OtherFrames>>

\* for role_id in roles: if stop_flag and stop_flag(): break
RRole ==
    /\ wpc = "r_role"
    /\ IF loop.ri > Len(cfg.roles) \/ StopPolled
       THEN wpc' = "r_scen" /\ loop' = [loop EXCEPT !.si = @ + 1]
       ELSE wpc' = "r_iter" /\ loop' = [loop EXCEPT !.it = 1]
    /\ hist' = Polled
    /\ UNCHANGED <<cfg, ServerFrame, experiment_status, results, current, responses,
                   response_text, experiment_run, call, EvalFrame, OtherFrames>>

\* for iteration in range(1, self.num_iterations + 1): if stop_flag and stop_flag(): break
RIteration ==
    /\ wpc = "r_iter"
    /\ IF loop.it > cfg.num_iterations \/ StopPolled
       THEN wpc' = "r_role" /\ loop' = [loop EXCEPT !.ri = @ + 1]
       ELSE wpc' = "r_progress" /\ loop' = loop
    /\ call' = NewCall("none")
    /\ hist' = Polled
    /\ UNCHANGED <<cfg, ServerFrame, experiment_status, results, current, responses,
                   response_text, experiment_run, EvalFrame, OtherFrames>>

\* current += 1; progress_callback(current, total_with_eval, message); the
\* generation call starts.
RProgress ==
    /\ wpc = "r_progress"
    /\ current' = current + 1
    /\ IF cfg.mode = "server"
       THEN update_progress(current + 1, total_experiments, "Model, Scenario, Role, Iteration")
       ELSE UNCHANGED experiment_status
    /\ call' = NewCall("gen")
    /\ hist' = [hist EXCEPT !.gen_calls = 1, !.judge_calls = 0]
    /\ wpc' = "r_gen"
    /\ UNCHANGED <<cfg, ServerFrame, results, loop, responses, response_text,
                   experiment_run, EvalFrame, OtherFrames>>

\* response_text = self._generate_response(...): one attempt of the call.
RGenerate(outcome) ==
    /\ wpc = "r_gen"
    /\ outcome.o = "fault" => budget.faults < MaxFaults
    /\ budget' = [budget EXCEPT !.faults = IF outcome.o = "fault" THEN @ + 1 ELSE @]
    /\ LET c == chat_completion(call, outcome)
           r == generate_response(c.result)
       IN  /\ call' = c
           /\ IF ~c.done
              THEN UNCHANGED <<wpc, response_text, experiment_status, loop, current,
                               responses, experiment_run, results, hist>>
              ELSE IF r.ok
              THEN /\ response_text' = r.text
                   /\ wpc' = "r_poll"
                   /\ UNCHANGED <<experiment_status, loop, current, responses,
                                  experiment_run, results, hist>>
              ELSE Raise(r)
    /\ UNCHANGED <<cfg, spc, stop_resp, experiment_stop_flags, EvalFrame, OtherFrames>>

RPollNever ==
    /\ wpc = "r_poll"
    /\ wpc' = "r_eval"
    /\ loop' = loop
    /\ call' = NewCall("judge")
    /\ hist' = [hist EXCEPT !.judge_calls = @ + 1]
    /\ UNCHANGED <<cfg, ServerFrame, experiment_status, results, current, responses,
                   response_text, experiment_run, EvalFrame, OtherFrames>>

\* if stop_flag and stop_flag(): break  (after generation); else the judge
\* call starts.
RPoll ==
    /\ wpc = "r_poll"
    /\ IF StopPolled
       THEN /\ wpc' = "r_role"
            /\ loop' = [loop EXCEPT !.ri = @ + 1]
            /\ call' = NewCall("none")
            /\ hist' = Polled
       ELSE /\ wpc' = "r_eval"
            /\ loop' = loop
            /\ call' = NewCall("judge")
            /\ hist' = [hist EXCEPT !.judge_calls = @ + 1]
    /\ UNCHANGED <<cfg, ServerFrame, experiment_status, results, current, responses,
                   response_text, experiment_run, EvalFrame, OtherFrames>>

\* evaluation = self.evaluator.evaluate_response(...): one attempt of the
\* judge call; when the call ends, the evaluation, and
\* responses.append(experiment_response).
REvaluate(outcome) ==
    /\ wpc = "r_eval"
    /\ outcome.o = "fault" => budget.faults < MaxFaults
    /\ (outcome.o = "http" /\ outcome # GoodJudgeReply) => budget.bad < MaxBadReplies
    /\ budget' = [budget EXCEPT
                    !.faults = IF outcome.o = "fault" THEN @ + 1 ELSE @,
                    !.bad = IF outcome.o = "http" /\ outcome # GoodJudgeReply THEN @ + 1 ELSE @]
    /\ LET c == chat_completion(call, outcome)
       IN  /\ call' = c
           /\ IF ~c.done
              THEN UNCHANGED <<wpc, loop, responses, response_text, current, hist,
                               experiment_status, experiment_run, results>>
              ELSE LET evaluation == evaluate_response(generate_response(c.result))
                   IN  IF evaluation.raised
                       THEN Raise(evaluation)
                       ELSE /\ responses' = Append(responses,
                                  ExperimentResponse(response_text, evaluation.scores))
                            /\ response_text' = <<>>
                            /\ loop' = [loop EXCEPT !.it = @ + 1]
                            /\ wpc' = "r_iter"
                            /\ UNCHANGED <<current, hist, experiment_status, experiment_run,
                                           results>>
    /\ UNCHANGED <<cfg, spc, stop_resp, experiment_stop_flags, EvalFrame, OtherFrames>>

\* config = {...}; return ExperimentRun(...)
RReturn ==
    /\ wpc = "r_return"
    /\ experiment_run' = [returned |-> TRUE, run |-> ExperimentRun(responses)]
    /\ wpc' = IF cfg.mode = "server" THEN "l121" ELSE "cli_save"
    /\ UNCHANGED <<cfg, ServerFrame, experiment_status, results, loop, current, responses,
                   response_text, call, hist, EvalFrame, OtherFrames>>

\* run_experiment.py main: experiment_run.to_json(str(output_file))
CliSave ==
    /\ wpc = "cli_save"
    /\ results' = results \cup {experiment_run.run}
    /\ wpc' = "done"
    /\ UNCHANGED <<cfg, ServerFrame, experiment_status, RunnerLocals, hist, EvalFrame, OtherFrames>>

(***************************************************************************)
(* The server's worker: run_experiment_async.                              *)
(***************************************************************************)
\* experiment_status[experiment_id] = {"status": "initializing", ...}
WRegister ==
    /\ wpc = "l57"
    /\ SetStatus(InitializingStatus)
    /\ wpc' = "l58"
    /\ UNCHANGED <<cfg, ServerFrame, results, RunnerLocals, hist, EvalFrame, OtherFrames>>

\* experiment_stop_flags[experiment_id] = False
WClearFlag ==
    /\ wpc = "l58"
    /\ experiment_stop_flags' = [j \in DOMAIN experiment_stop_flags \cup {JobId} |-> FALSE]
    /\ hist' = [hist EXCEPT !.stop_set = FALSE, !.stop_k = 0, !.stop_between = FALSE]
    /\ wpc' = "l98"
    /\ UNCHANGED <<cfg, spc, stop_resp, budget, experiment_status, results, RunnerLocals, EvalFrame, OtherFrames>>

\* experiment_status[experiment_id]["total"] = total_experiments
WSetTotal ==
    /\ wpc = "l98"
    /\ SetStatus(DictUpdate(Status, [total |-> total_experiments]))
    /\ wpc' = "l99"
    /\ UNCHANGED <<cfg, ServerFrame, results, RunnerLocals, hist, EvalFrame, OtherFrames>>

\* experiment_status[experiment_id]["status"] = "running"
WSetRunning ==
    /\ wpc = "l99"
    /\ SetStatus(DictUpdate(Status, [status |-> "running"]))
    /\ wpc' = "l100"
    /\ UNCHANGED <<cfg, ServerFrame, results, RunnerLocals, hist, EvalFrame, OtherFrames>>

\* experiment_status[experiment_id]["message"] = "Starting experiment..."
WSetMessage ==
    /\ wpc = "l100"
    /\ SetStatus(DictUpdate(Status, [message |-> "Starting experiment..."]))
    /\ wpc' = "l103"
    /\ UNCHANGED <<cfg, ServerFrame, results, RunnerLocals, hist, EvalFrame, OtherFrames>>

\* Check if stopped before starting; else run_experiment_with_progress
\* begins.
WCheckBefore ==
    /\ wpc = "l103"
    /\ IF StopFlag
       THEN SetStatus(StoppedStatus(0)) /\ wpc' = "done"
       ELSE UNCHANGED experiment_status /\ wpc' = "r_model"
    /\ UNCHANGED <<cfg, ServerFrame, results, RunnerLocals, hist, EvalFrame, OtherFrames>>

WCheckAfterNever ==
    /\ wpc = "l121"
    /\ UNCHANGED experiment_status /\ wpc' = "l130"
    /\ UNCHANGED <<cfg, ServerFrame, results, RunnerLocals, hist, EvalFrame, OtherFrames>>

\* Check if stopped during execution.
WCheckAfter ==
    /\ wpc = "l121"
    /\ IF StopFlag
       THEN SetStatus(StoppedStatus(ProgressOf)) /\ wpc' = "done"
       ELSE UNCHANGED experiment_status /\ wpc' = "l130"
    /\ UNCHANGED <<cfg, ServerFrame, results, RunnerLocals, hist, EvalFrame, OtherFrames>>

\* experiment_run.config[...] = ...; experiment_run.to_json(str(output_file))
WSave ==
    /\ wpc = "l130"
    /\ results' = results \cup {experiment_run.run}
    /\ wpc' = "l139"
    /\ UNCHANGED <<cfg, ServerFrame, experiment_status, RunnerLocals, hist, EvalFrame, OtherFrames>>

\* experiment_status[experiment_id] = {"status": "completed", ...}
WComplete ==
    /\ wpc = "l139"
    /\ SetStatus(CompletedStatus(experiment_run.run))
    /\ wpc' = "done"
    /\ UNCHANGED <<cfg, ServerFrame, results, RunnerLocals, hist, EvalFrame, OtherFrames>>

(***************************************************************************)
(* A stop request: stop_experiment.                                        *)
(***************************************************************************)
StopCheckAnyStatus ==
    /\ cfg.mode = "server"
    /\ spc = "idle"
    /\ budget.stops < MaxStops
    /\ budget' = [budget EXCEPT !.stops = @ + 1]
    /\ IF ~Registered
       THEN spc' = "idle" /\ stop_resp' = 404
       ELSE spc' = "l247" /\ stop_resp' = stop_resp
    /\ UNCHANGED <<cfg, wpc, experiment_status, experiment_stop_flags, results, RunnerLocals,
                   hist, EvalFrame, OtherFrames>>

\* The two checks: 404 for an unknown id, 400 for a status that is neither
\* running nor initializing.
StopCheck ==
    /\ cfg.mode = "server"
    /\ spc = "idle"
    /\ budget.stops < MaxStops
    /\ budget' = [budget EXCEPT !.stops = @ + 1]
    /\ IF ~Registered
       THEN spc' = "idle" /\ stop_resp' = 404
       ELSE IF Status.status \notin {"running", "initializing"}
       THEN spc' = "idle" /\ stop_resp' = 400
       ELSE spc' = "l247" /\ stop_resp' = stop_resp
    /\ UNCHANGED <<cfg, wpc, experiment_status, experiment_stop_flags, results, RunnerLocals,
                   hist, EvalFrame, OtherFrames>>

\* experiment_stop_flags[experiment_id] = True
StopSetFlag ==
    /\ spc = "l247"
    /\ experiment_stop_flags' = [j \in DOMAIN experiment_stop_flags \cup {JobId} |-> TRUE]
    /\ hist' = IF StopFlag THEN hist
               ELSE [hist EXCEPT !.stop_set = TRUE, !.stop_k = Len(responses),
                                 !.stop_between = ~InUnit]
    /\ spc' = "l248"
    /\ UNCHANGED <<cfg, wpc, stop_resp, budget, experiment_status, results, RunnerLocals, EvalFrame, OtherFrames>>

\* experiment_status[experiment_id]["status"] = "stopping"
StopSetStatus ==
    /\ spc = "l248"
    /\ SetStatus(DictUpdate(Status, [status |-> "stopping"]))
    /\ spc' = "l249"
    /\ UNCHANGED <<cfg, wpc, stop_resp, budget, experiment_stop_flags, results, RunnerLocals,
                   hist, EvalFrame, OtherFrames>>

\* experiment_status[experiment_id]["message"] = "Stopping experiment..."
StopSetMessage ==
    /\ spc = "l249"
    /\ SetStatus(DictUpdate(Status, [message |-> "Stopping experiment..."]))
    /\ spc' = "idle"
    /\ stop_resp' = 200
    /\ UNCHANGED <<cfg, wpc, budget, experiment_stop_flags, results, RunnerLocals, hist, EvalFrame, OtherFrames>>

(***************************************************************************)
(* The specification of one job.                                           *)
(***************************************************************************)
\* The variables of the other specifications, untouched by this one.
OthersAtRest ==
    /\ os_environ = <<>>
    /\ jobs = <<>>
    /\ rt = <<>>
    /\ ch = <<>>
    /\ request = <<>>
    /\ running_experiments = {}

Init ==
    /\ cfg \in Configs
    /\ wpc = IF cfg.mode = "server" THEN "l57" ELSE "r_model"
    /\ spc = "idle"
    /\ stop_resp = 0
    /\ experiment_status = [j \in {} |-> InitializingStatus]
    /\ experiment_stop_flags = [j \in {} |-> FALSE]
    /\ results = {}
    /\ loop = NoLoop
    /\ current = 0
    /\ responses = <<>>
    /\ response_text = <<>>
    /\ experiment_run = NoRun
    /\ call = NewCall("none")
    /\ budget = [faults |-> 0, bad |-> 0, stops |-> 0]
    /\ hist = NoHist
    /\ ev_in = [ok |-> TRUE, text |-> <<>>]
    /\ ev_out = [done |-> FALSE]
    /\ OthersAtRest

Worker ==
    \/ WRegister \/ WClearFlag \/ WSetTotal \/ WSetRunning \/ WSetMessage
    \/ WCheckBefore \/ WCheckAfter \/ WSave \/ WComplete

Runner ==
    \/ RModel \/ RScenario \/ RRole \/ RIteration \/ RProgress
    \/ (\E outcome \in {Fault(c) : c \in FaultCauses} \cup GenReplies : RGenerate(outcome))
    \/ RPoll
    \/ (\E outcome \in {Fault(c) : c \in FaultCauses} \cup {GoodJudgeReply} \cup BadJudgeReplies :
            REvaluate(outcome))
    \/ RReturn \/ CliSave

Stopper == StopCheck \/ StopSetFlag \/ StopSetStatus \/ StopSetMessage

Next == Worker \/ Runner \/ Stopper

Spec == Init /\ [][Next]_vars

\* The worker is a thread that runs until its function returns, and a stop
\* request's handler runs to its response: each keeps taking steps.  A
\* judge call ends, as every requests.post returns or raises within its
\* timeout and there are at most max_retries of them.
WorkerSteps ==
    \/ Worker
    \/ RModel \/ RScenario \/ RRole \/ RIteration \/ RProgress \/ RPoll \/ RReturn \/ CliSave
    \/ (\E outcome \in {Fault(c) : c \in FaultCauses} \cup GenReplies : RGenerate(outcome))

FairSpec ==
    /\ Spec
    /\ WF_vars(WorkerSteps)
    /\ []<>(wpc # "r_eval")
    /\ WF_vars(Stopper)

(***************************************************************************)
(* evaluate_response alone, on every judge reply of the bounded sets.      *)
(***************************************************************************)
ScoreValues == {Num(2), Num(5), NumStr(4), Bool(TRUE), Bool(FALSE), Str("high"), Null, List}

\* A five-field body whose field i holds v.
BodyWith(i, v) ==
    [j \in 1..Len(required_fields) |->
        Pair(required_fields[j], IF j = i THEN v ELSE Num(4))]

\* A body without field i.
BodyWithout(i) ==
    SelectSeq(FullBody(4), LAMBDA p : p.f # required_fields[i])

JudgeBodies ==
    {BodyWith(i, v) : i \in 1..Len(required_fields), v \in ScoreValues}
        \cup {BodyWithout(i) : i \in 1..Len(required_fields)}
        \cup {Append(FullBody(2), Pair("overall_justification", Str("sound")))}
        \cup {Append(FullBody(2), Pair("rationality", Num(5)))}

Wrapped(b) ==
    {<<Tok("lb"), Body(b), Tok("rb")>>,
     <<Tok("txt"), Tok("lb"), Tok("ws"), Body(b), Tok("rb"), Tok("txt")>>,
     <<Tok("fence"), Tok("json"), Tok("ws"), Tok("lb"), Body(b), Tok("rb"), Tok("ws"), Tok("fence")>>,
     <<Tok("lb"), Tok("key"), Tok("lb"), Body(b), Tok("rb"), Tok("rb")>>,
     <<Tok("lb"), Body(b), Tok("key"), Tok("lb"), Tok("rb"), Tok("rb")>>}

StructTokens ==
    {Tok("fence"), Tok("json"), Tok("ws"), Tok("lb"), Tok("rb"), Tok("txt"), Tok("key"),
     Body(FullBody(4))}

\* Five-field bodies with unequal scores, in every order of the fields.
MixedScores == <<1, 2, 3, 5, 5>>
MixedBody == [j \in 1..Len(required_fields) |-> Pair(required_fields[j], Num(MixedScores[j]))]
Orders(n) == {p \in [1..n -> 1..n] : \A i, j \in 1..n : p[i] = p[j] => i = j}
Reordered(b, p) == [j \in 1..Len(b) |-> b[p[j]]]
OrderedBodies == {Reordered(MixedBody, p) : p \in Orders(Len(MixedBody))}
OrderedTexts ==
    {<<Tok("lb"), Body(b), Tok("rb")>> : b \in OrderedBodies}
        \cup {<<Tok("fence"), Tok("json"), Tok("ws"), Tok("lb"), Body(b), Tok("rb"), Tok("ws"),
               Tok("fence")>> : b \in OrderedBodies}

\* Texts in which the stages of _extract_json select different spans: a
\* bare object before a fenced one, and an object nested two levels deep.
CascadeTexts ==
    {<<Tok("lb"), Body(FullBody(4)), Tok("rb"), Tok("fence"), Tok("lb"), Tok("txt"), Tok("rb"),
       Tok("fence")>>,
     <<Tok("lb"), Tok("rb"), Tok("fence"), Tok("json"), Tok("lb"), Body(FullBody(4)), Tok("rb"),
       Tok("fence")>>,
     <<Tok("lb"), Body(FullBody(4)), Tok("key"), Tok("lb"), Tok("key"), Tok("lb"), Tok("rb"),
       Tok("rb"), Tok("rb")>>,
     <<Tok("lb"), Body(FullBody(4)), Tok("rb"), Tok("lb"), Tok("txt"), Tok("rb")>>}

JudgeTexts ==
    SeqsUpTo(StructTokens, MaxTextLen) \cup UNION {Wrapped(b) : b \in JudgeBodies}
        \cup OrderedTexts \cup CascadeTexts

\* What client.generate_response gives evaluate_response: a text, or the
\* error of a failed call.
JudgeResults ==
    {[ok |-> TRUE, text |-> t] : t \in JudgeTexts}
        \cup {generate_response(NetworkError(<<[out |-> Fault(c)]>>)) : c \in FaultCauses}
        \cup {generate_response(HttpResult(JudgeModel, r)) : r \in BadJudgeReplies}

InitEval ==
    /\ cfg = [mode |-> "cli", models |-> <<GptModel, ClaudeModel>>, scenarios |-> <<"s1">>,
              roles |-> <<"r1">>, num_iterations |-> 0]
    /\ wpc = "done"
    /\ spc = "idle"
    /\ stop_resp = 0
    /\ experiment_status = [j \in {} |-> InitializingStatus]
    /\ experiment_stop_flags = [j \in {} |-> FALSE]
    /\ results = {}
    /\ loop = NoLoop
    /\ current = 0
    /\ responses = <<>>
    /\ response_text = <<>>
    /\ experiment_run = NoRun
    /\ call = NewCall("none")
    /\ budget = [faults |-> 0, bad |-> 0, stops |-> 0]
    /\ hist = NoHist
    /\ ev_in \in JudgeResults
    /\ ev_out = [done |-> FALSE]
    /\ OthersAtRest

Evaluate ==
    /\ ~ev_out.done
    /\ ev_out' = [done |-> TRUE, result |-> evaluate_response(ev_in)]
    /\ UNCHANGED <<cfg, wpc, spc, stop_resp, experiment_status, experiment_stop_flags, results,
                   loop, current, responses, response_text, experiment_run, call, budget, hist,
                   ev_in, OtherFrames>>

NextEval == Evaluate

SpecEval == InitEval /\ [][NextEval]_vars

(***************************************************************************)
(* chat_completion alone: one call, every reply of the bounded sets.       *)
(***************************************************************************)
\* The job's variables when no job runs.
JobAtRest ==
    /\ wpc = "done"
    /\ spc = "idle"
    /\ stop_resp = 0
    /\ experiment_status = [j \in {} |-> InitializingStatus]
    /\ experiment_stop_flags = [j \in {} |-> FALSE]
    /\ results = {}
    /\ current = 0
    /\ responses = <<>>
    /\ response_text = <<>>
    /\ experiment_run = NoRun
    /\ budget = [faults |-> 0, bad |-> 0, stops |-> 0]
    /\ hist = NoHist

JobFrame ==
    <<wpc, spc, stop_resp, experiment_status, experiment_stop_flags, results, current,
      responses, response_text, experiment_run, budget, hist>>

OneUnitConfig ==
    [mode |-> "server", models |-> <<GptModel, ClaudeModel>>, scenarios |-> <<"s1">>,
     roles |-> <<"r1">>, num_iterations |-> 1]

ErrorValues ==
    {ErrorObject(("type" :> "invalid_request_error") @@ ("message" :> "not a valid model ID")),
     ErrorObject("message" :> "not a valid model ID"),
     ErrorObject(<<>>),
     Str("not a valid model ID"),
     Null}

CallBodies ==
    {Content(GenText), NoChoices, NotJson} \cup {ErrorBody(e) : e \in ErrorValues}

CallStatuses == {200, 400, 429, 500}

CallReplies == {Http(st, b) : st \in CallStatuses, b \in CallBodies}

InitCall ==
    /\ cfg = OneUnitConfig
    /\ JobAtRest
    /\ loop \in {[NoLoop EXCEPT !.mi = m] : m \in 1..Len(cfg.models)}
    /\ call \in {NewCall("gen"), NewCall("judge")}
    /\ ev_in = [ok |-> TRUE, text |-> <<>>]
    /\ ev_out = [done |-> FALSE]
    /\ OthersAtRest

\* One turn of the retry loop of chat_completion.
Attempt(outcome) ==
    /\ ~call.done
    /\ call' = chat_completion(call, outcome)
    /\ UNCHANGED <<cfg, JobFrame, loop, EvalFrame, OtherFrames>>

NextCall == \E outcome \in {Fault(c) : c \in FaultCauses} \cup CallReplies : Attempt(outcome)

SpecCall == InitCall /\ [][NextCall]_vars

(***************************************************************************)
(* Two workers and the process environment: run_experiment_async from its  *)
(* line 60 to the call of the runner, and its finally clause.  A value is  *)
(* <<job, key>>: the value the job's env_vars gives the key; <<>> is None  *)
(* (the variable is not set).  SCENARIOS and ROLES are never written to    *)
(* the environment and are left out.  Of the keys that are handled alike,  *)
(* one is followed: RESPONSE_MODEL_1 (mapped to GPT_MODEL) stands for      *)
(* RESPONSE_MODEL_2 and RESPONSE_TEMPERATURE too, JUDGE_MODEL (read under  *)
(* "if os.getenv") for JUDGE_TEMPERATURE; the workers' steps on the other  *)
(* keys touch neither these keys nor these fields of the runner.           *)
(***************************************************************************)
EnvJobs == {"exp_1", "exp_2"}

None == <<>>
Val(j, k) == <<j, k>>
Default(field) == <<"default", field>>

\* The keys of env_vars that line 65 writes, in the dict's order.
EnvKeys == <<"OPENROUTER_API_KEY", "RESPONSE_MODEL_1", "JUDGE_MODEL", "NUM_ITERATIONS">>

\* Lines 70-75: if os.getenv(src): os.environ[dst] = os.getenv(src)
EnvMappings == <<[src |-> "RESPONSE_MODEL_1", dst |-> "GPT_MODEL"]>>

AllEnvKeys ==
    {EnvKeys[i] : i \in 1..Len(EnvKeys)} \cup {EnvMappings[i].dst : i \in 1..Len(EnvMappings)}

\* ExperimentRunner(): the environment reads of OpenRouterClient.__init__,
\* LLMJudgeEvaluator.__init__ (with its own client) and
\* ExperimentRunner.__init__, in order.
InitReads ==
    <<[field |-> "api_key", key |-> "OPENROUTER_API_KEY"],
      [field |-> "judge_model", key |-> "JUDGE_MODEL"],
      [field |-> "api_key", key |-> "OPENROUTER_API_KEY"],
      [field |-> "gpt_model", key |-> "GPT_MODEL"],
      [field |-> "num_iterations", key |-> "NUM_ITERATIONS"]>>

\* Lines 81-84: runner.f = os.getenv(key, runner.f)
Overrides ==
    <<[field |-> "gpt_model", key |-> "GPT_MODEL"],
      [field |-> "num_iterations", key |-> "NUM_ITERATIONS"]>>

\* Lines 86-89: if os.getenv(key): runner.evaluator.f = os.getenv(key)
JudgeOverrides == <<[field |-> "judge_model", key |-> "JUDGE_MODEL"]>>

RunnerFields == {"gpt_model", "num_iterations", "judge_model"}

NewJob ==
    [ph |-> "set_save", i |-> 1, original_env |-> [k \in {} |-> None], tmp |-> None,
     runner |-> [f \in RunnerFields |-> None], failed |-> FALSE]

EnvOthers == <<cfg, JobFrame, loop, call, EvalFrame, rt, ch, request, running_experiments>>

At(j, ph) == jobs[j].ph = ph

\* Position (ph, i) of a loop over seq is done: the next element, or what
\* follows the loop.
After(job, seq, ph, next) ==
    IF job.i < Len(seq) THEN [job EXCEPT !.ph = ph, !.i = @ + 1]
    ELSE [job EXCEPT !.ph = next, !.i = 1]

\* An exception leaves the inner try: the finally clause restores the
\* environment, then the job's status becomes error.
RaiseInSetup(job) == [job EXCEPT !.ph = "restore", !.i = 1, !.failed = TRUE]

\* original_env[key] = os.environ.get(key)
SetSave(j) ==
    /\ At(j, "set_save")
    /\ LET k == EnvKeys[jobs[j].i]
       IN  jobs' = [jobs EXCEPT ![j].original_env = (k :> os_environ[k]) @@ @,
                                ![j].ph = "set_write"]
    /\ UNCHANGED <<os_environ, EnvOthers>>

\* os.environ[key] = str(value)
SetWrite(j) ==
    /\ At(j, "set_write")
    /\ LET k == EnvKeys[jobs[j].i]
       IN  os_environ' = [os_environ EXCEPT ![k] = Val(j, k)]
    /\ jobs' = [jobs EXCEPT ![j] = After(@, EnvKeys, "set_save", "map_test")]
    /\ UNCHANGED EnvOthers

\* if os.getenv(src):
MapTest(j) ==
    /\ At(j, "map_test")
    /\ jobs' = [jobs EXCEPT ![j] =
                  IF os_environ[EnvMappings[@.i].src] # None
                  THEN [@ EXCEPT !.ph = "map_read"]
                  ELSE After(@, EnvMappings, "map_test", "init")]
    /\ UNCHANGED <<os_environ, EnvOthers>>

\* os.getenv(src), the right-hand side of the assignment
MapRead(j) ==
    /\ At(j, "map_read")
    /\ jobs' = [jobs EXCEPT ![j].tmp = os_environ[EnvMappings[jobs[j].i].src],
                            ![j].ph = "map_write"]
    /\ UNCHANGED <<os_environ, EnvOthers>>

\* os.environ[dst] = ...: TypeError when the value read is None
MapWrite(j) ==
    /\ At(j, "map_write")
    /\ IF jobs[j].tmp = None
       THEN /\ jobs' = [jobs EXCEPT ![j] = RaiseInSetup(@)]
            /\ UNCHANGED os_environ
       ELSE /\ os_environ' = [os_environ EXCEPT ![EnvMappings[jobs[j].i].dst] = jobs[j].tmp]
            /\ jobs' = [jobs EXCEPT ![j] = After([@ EXCEPT !.tmp = None], EnvMappings,
                                                  "map_test", "init")]
    /\ UNCHANGED EnvOthers

\* runner = ExperimentRunner(): one os.getenv of the constructors; a
\* missing API key raises ValueError.
InitRead(j) ==
    /\ At(j, "init")
    /\ LET r == InitReads[jobs[j].i]
           v == os_environ[r.key]
       IN  jobs' = [jobs EXCEPT ![j] =
                     IF r.field = "api_key"
                     THEN (IF v = None THEN RaiseInSetup(@)
                           ELSE After(@, InitReads, "init", "override"))
                     ELSE After([@ EXCEPT !.runner[r.field] =
                                     IF v # None THEN v ELSE Default(r.field)],
                                InitReads, "init", "override")]
    /\ UNCHANGED <<os_environ, EnvOthers>>

\* runner.f = os.getenv(key, runner.f)
Override(j) ==
    /\ At(j, "override")
    /\ LET r == Overrides[jobs[j].i]
           v == os_environ[r.key]
       IN  jobs' = [jobs EXCEPT ![j] =
                     After([@ EXCEPT !.runner[r.field] = IF v # None THEN v ELSE @],
                           Overrides, "override", "judge_test")]
    /\ UNCHANGED <<os_environ, EnvOthers>>

\* if os.getenv(key):
JudgeTest(j) ==
    /\ At(j, "judge_test")
    /\ jobs' = [jobs EXCEPT ![j] =
                  IF os_environ[JudgeOverrides[@.i].key] # None
                  THEN [@ EXCEPT !.ph = "judge_read"]
                  ELSE After(@, JudgeOverrides, "judge_test", "run")]
    /\ UNCHANGED <<os_environ, EnvOthers>>

\* runner.evaluator.judge_model = os.getenv("JUDGE_MODEL")
JudgeRead(j) ==
    /\ At(j, "judge_read")
    /\ LET r == JudgeOverrides[jobs[j].i]
           v == os_environ[r.key]
       IN  jobs' = [jobs EXCEPT ![j] =
                     After([@ EXCEPT !.runner[r.field] = v],
                           JudgeOverrides, "judge_test", "run")]
    /\ UNCHANGED <<os_environ, EnvOthers>>

\* Lines 92-148: the run, with the runner as it now is.
RunJob(j) ==
    /\ At(j, "run")
    /\ jobs' = [jobs EXCEPT ![j].ph = "restore", ![j].i = 1]
    /\ UNCHANGED <<os_environ, EnvOthers>>

\* finally: os.environ.pop(key, None) or os.environ[key] = value
Restore(j) ==
    /\ At(j, "restore")
    /\ LET k == EnvKeys[jobs[j].i]
       IN  os_environ' = [os_environ EXCEPT ![k] = jobs[j].original_env[k]]
    /\ jobs' = [jobs EXCEPT ![j] = After(@, EnvKeys, "restore", "done")]
    /\ UNCHANGED EnvOthers

InitEnv ==
    /\ cfg = OneUnitConfig
    /\ JobAtRest
    /\ loop = NoLoop
    /\ call = NewCall("none")
    /\ ev_in = [ok |-> TRUE, text |-> <<>>]
    /\ ev_out = [done |-> FALSE]
    /\ os_environ = [k \in AllEnvKeys |-> None]
    /\ jobs = [j \in EnvJobs |-> NewJob]
    /\ rt = <<>>
    /\ ch = <<>>
    /\ request = <<>>
    /\ running_experiments = {}

NextEnv ==
    \E j \in EnvJobs :
        \/ SetSave(j) \/ SetWrite(j)
        \/ MapTest(j) \/ MapRead(j) \/ MapWrite(j)
        \/ InitRead(j) \/ Override(j) \/ JudgeTest(j) \/ JudgeRead(j)
        \/ RunJob(j) \/ Restore(j)

SpecEnv == InitEnv /\ [][NextEnv]_vars

(***************************************************************************)
(* Serialization: ExperimentRun.to_json and from_json                      *)
(* (src/models/experiment.py).  A Python value carries its type in py, a   *)
(* value of the JSON file its type in js; a dataclass instance is an "obj" *)
(* of its class.                                                           *)
(***************************************************************************)
PyNone == [py |-> "None"]
PyStr(x) == [py |-> "str", v |-> x]
PyInt(n) == [py |-> "int", v |-> n]
PyFloat(n) == [py |-> "float", v |-> n]
PyList(items) == [py |-> "list", items |-> items]
PyDict(fields) == [py |-> "dict", fields |-> fields]
PyObj(cls, fields) == [py |-> "obj", cls |-> cls, fields |-> fields]

\* float("nan"): the judge's NaN literal or its string "nan", through float()
\* (src/evaluator.py lines 119-123)
PyNaN == [py |-> "nan"]

\* a == b in Python: dataclass instances of one class compare field by
\* field, lists and dicts member by member, and NaN equals no float.  The
\* values compared are never the same object, so no identity shortcut
\* applies.
RECURSIVE PyEq(_, _)
PyEq(a, b) ==
    CASE a.py = "nan" \/ b.py = "nan" -> FALSE
      [] a.py = "obj" /\ b.py = "obj" ->
            /\ a.cls = b.cls
            /\ DOMAIN a.fields = DOMAIN b.fields
            /\ \A f \in DOMAIN a.fields : PyEq(a.fields[f], b.fields[f])
      [] a.py = "dict" /\ b.py = "dict" ->
            /\ DOMAIN a.fields = DOMAIN b.fields
            /\ \A f \in DOMAIN a.fields : PyEq(a.fields[f], b.fields[f])
      [] a.py = "list" /\ b.py = "list" ->
            /\ Len(a.items) = Len(b.items)
            /\ \A i \in DOMAIN a.items : PyEq(a.items[i], b.items[i])
      [] OTHER -> a = b

JNull == [js |-> "null"]
JString(x) == [js |-> "string", v |-> x]
JInt(n) == [js |-> "int", v |-> n]           \* 3
JFloat(n) == [js |-> "float", v |-> n]       \* 3.0
JNaN == [js |-> "NaN"]                       \* NaN, written as allow_nan is on
JArray(items) == [js |-> "array", items |-> items]
JObject(fields) == [js |-> "object", fields |-> fields]

\* bool(v) for the values that occur
Truthy(v) ==
    CASE v.py = "None" -> FALSE
      [] v.py = "dict" -> DOMAIN v.fields # {}
      [] v.py = "list" -> v.items # <<>>
      [] v.py = "str"  -> v.v # ""
      [] v.py \in {"int", "float"} -> v.v # 0
      [] OTHER -> TRUE

\* dataclasses.asdict: dataclass instances become dicts, recursively,
\* also inside lists and dicts.
RECURSIVE asdict(_)
asdict(v) ==
    CASE v.py \in {"obj", "dict"} -> PyDict([f \in DOMAIN v.fields |-> asdict(v.fields[f])])
      [] v.py = "list" -> PyList([i \in DOMAIN v.items |-> asdict(v.items[i])])
      [] OTHER -> v

\* json.dump: the JSON text of a value; a dataclass instance is not
\* serializable.
RECURSIVE json_dump(_)
json_dump(v) ==
    CASE v.py = "None"  -> JNull
      [] v.py = "str"   -> JString(v.v)
      [] v.py = "int"   -> JInt(v.v)
      [] v.py = "float" -> JFloat(v.v)
      [] v.py = "nan"   -> JNaN
      [] v.py = "list"  -> JArray([i \in DOMAIN v.items |-> json_dump(v.items[i])])
      [] v.py = "dict"  -> JObject([f \in DOMAIN v.fields |-> json_dump(v.fields[f])])
      [] OTHER          -> [js |-> "TypeError"]

\* json.load
RECURSIVE json_load(_)
json_load(x) ==
    CASE x.js = "null"   -> PyNone
      [] x.js = "string" -> PyStr(x.v)
      [] x.js = "int"    -> PyInt(x.v)
      [] x.js = "float"  -> PyFloat(x.v)
      [] x.js = "NaN"    -> PyNaN
      [] x.js = "array"  -> PyList([i \in DOMAIN x.items |-> json_load(x.items[i])])
      [] x.js = "object" -> PyDict([f \in DOMAIN x.fields |-> json_load(x.fields[f])])

\* EvaluationScores.to_dict
EvaluationScores_to_dict(e) == asdict(e)

\* ExperimentResponse(...), with __post_init__: a timestamp of None becomes
\* datetime.now().isoformat().
NewExperimentResponse(fields, now) ==
    PyObj("ExperimentResponse",
          [fields EXCEPT !.timestamp = IF @ = PyNone THEN PyStr(now) ELSE @])

\* ExperimentResponse.to_dict
ExperimentResponse_to_dict(r) ==
    LET result == asdict(r)
    IN  IF Truthy(r.fields.evaluation)
        THEN PyDict([result.fields EXCEPT !.evaluation = EvaluationScores_to_dict(r.fields.evaluation)])
        ELSE result

\* ExperimentRun.to_dict
ExperimentRun_to_dict(run) ==
    PyDict([run_id |-> run.fields.run_id,
            timestamp |-> run.fields.timestamp,
            config |-> run.fields.config,
            responses |-> PyList([i \in DOMAIN run.fields.responses.items |->
                                    ExperimentResponse_to_dict(run.fields.responses.items[i])])])

\* ExperimentRun.to_json: json.dump(self.to_dict(), f, indent=2)
to_json(run) == json_dump(ExperimentRun_to_dict(run))

\* r.get(k): None when the key is missing
DictGetNone(d, k) == IF k \in DOMAIN d.fields THEN d.fields[k] ELSE PyNone

from_json_without_timestamps(file, now) ==
    LET data == json_load(file)
    IN  PyObj("ExperimentRun",
              [run_id |-> data.fields.run_id,
               timestamp |-> data.fields.timestamp,
               config |-> data.fields.config,
               responses |-> PyList([i \in DOMAIN data.fields.responses.items |->
                   LET r == data.fields.responses.items[i]
                   IN  NewExperimentResponse(
                           [scenario_id |-> r.fields.scenario_id,
                            role_id |-> r.fields.role_id,
                            model |-> r.fields.model,
                            iteration |-> r.fields.iteration,
                            prompt |-> r.fields.prompt,
                            response |-> r.fields.response,
                            evaluation |-> IF Truthy(DictGetNone(r, "evaluation"))
                                           THEN PyObj("EvaluationScores", r.fields.evaluation.fields)
                                           ELSE PyNone,
                            timestamp |-> PyNone],
                           now)])])

\* ExperimentRun.from_json, read at time now
from_json(file, now) ==
    LET data == json_load(file)
    IN  PyObj("ExperimentRun",
              [run_id |-> data.fields.run_id,
               timestamp |-> data.fields.timestamp,
               config |-> data.fields.config,
               responses |-> PyList([i \in DOMAIN data.fields.responses.items |->
                   LET r == data.fields.responses.items[i]
                   IN  NewExperimentResponse(
                           [scenario_id |-> r.fields.scenario_id,
                            role_id |-> r.fields.role_id,
                            model |-> r.fields.model,
                            iteration |-> r.fields.iteration,
                            prompt |-> r.fields.prompt,
                            response |-> r.fields.response,
                            evaluation |-> IF Truthy(DictGetNone(r, "evaluation"))
                                           THEN PyObj("EvaluationScores", r.fields.evaluation.fields)
                                           ELSE PyNone,
                            timestamp |-> DictGetNone(r, "timestamp")],
                           now)])])

\* The runs that are serialized: evaluations as the evaluator returns them
\* (the judge's scores, or the neutral default with its error text) or
\* none; responses created at WrittenAt or carrying an earlier timestamp.
WrittenAt == "2026-01-01T10:00:00"
ReadAt == "2026-01-02T09:00:00"

PyScores(x, justification) ==
    PyObj("EvaluationScores",
          [rationality |-> x, comprehensiveness |-> PyFloat(4),
           analytical_depth |-> PyFloat(4), integrity |-> x,
           bias_mitigation |-> PyFloat(4), overall_justification |-> justification])

PyDefaultScores(justification) ==
    PyObj("EvaluationScores",
          [rationality |-> PyFloat(NeutralScore), comprehensiveness |-> PyFloat(NeutralScore),
           analytical_depth |-> PyFloat(NeutralScore), integrity |-> PyFloat(NeutralScore),
           bias_mitigation |-> PyFloat(NeutralScore), overall_justification |-> justification])

CodecEvaluations ==
    {PyNone,
     PyScores(PyFloat(5), PyStr("sound")),
     PyScores(PyFloat(5), PyStr("")),
     PyScores(PyNaN, PyStr("sound")),
     PyDefaultScores(PyStr("Evaluation error: Empty response from judge model"))}

CodecResponses ==
    {NewExperimentResponse(
         [scenario_id |-> PyStr("s1"), role_id |-> PyStr("r1"), model |-> PyStr(GptModel),
          iteration |-> PyInt(it), prompt |-> PyStr("framing, description"),
          response |-> PyStr(text), evaluation |-> e, timestamp |-> ts],
         WrittenAt) :
       it \in 1..2, text \in {"Choice: Option B"}, e \in CodecEvaluations,
       ts \in {PyNone, PyStr("2025-12-31T23:59:59")}}

CodecConfigs ==
    {PyDict([models |-> PyList(<<PyStr(GptModel), PyStr(ClaudeModel)>>),
             scenarios |-> PyList(<<PyStr("s1")>>),
             roles |-> PyList(<<PyStr("r1")>>),
             num_iterations |-> PyInt(n),
             temperature |-> PyFloat(0),
             judge_temperature |-> PyFloat(0),
             max_tokens |-> PyInt(1000),
             judge_model |-> PyStr(JudgeModel)]) : n \in {2}}

CodecRuns ==
    {PyObj("ExperimentRun",
           [run_id |-> PyStr(RunId), timestamp |-> PyStr(WrittenAt), config |-> c,
            responses |-> PyList(rs)]) :
       c \in CodecConfigs, rs \in SeqsUpTo(CodecResponses, MaxRunLen)}

CodecOthers == <<cfg, JobFrame, loop, call, EvalFrame, os_environ, jobs, ch, request,
                 running_experiments>>

InitCodec ==
    /\ cfg = OneUnitConfig
    /\ JobAtRest
    /\ loop = NoLoop
    /\ call = NewCall("none")
    /\ ev_in = [ok |-> TRUE, text |-> <<>>]
    /\ ev_out = [done |-> FALSE]
    /\ os_environ = <<>>
    /\ jobs = <<>>
    /\ rt \in {[phase |-> "run", run |-> r] : r \in CodecRuns}
    /\ ch = <<>>
    /\ request = <<>>
    /\ running_experiments = {}

\* experiment_run.to_json(str(output_file))
ToJson ==
    /\ rt.phase = "run"
    /\ rt' = [phase |-> "file", run |-> rt.run, file |-> to_json(rt.run)]
    /\ UNCHANGED CodecOthers

\* ExperimentRun.from_json(str(exp_file)), at a later time
FromJson ==
    /\ rt.phase = "file"
    /\ rt' = [phase |-> "loaded", run |-> rt.run, file |-> rt.file,
              loaded |-> from_json(rt.file, ReadAt)]
    /\ UNCHANGED CodecOthers

NextCodec == ToJson \/ FromJson

SpecCodec == InitCodec /\ [][NextCodec]_vars

(***************************************************************************)
(* extract_choice (src/api_server.py lines 28-52; src/analyze_results.py   *)
(* lines 16-49 is the same function).  A text is a sequence of tokens: one *)
(* character each, except that a word of the patterns ("choice", "option", *)
(* "answer", ...) is one token, in the case it is written in.              *)
(***************************************************************************)
LabelChars == {"A", "B", "C", "D", "a", "b", "c", "d"}

\* str.upper on a label
Upper(c) ==
    CASE c = "a" -> "A" [] c = "b" -> "B" [] c = "c" -> "C" [] c = "d" -> "D"
      [] OTHER -> c

\* the words of pattern3, and what re.IGNORECASE makes of a token
Verbs == {"option", "choice", "select", "answer", "decision", "recommendation", "choose"}

Fold(tok) ==
    CASE tok = "Choice" -> "choice"
      [] tok = "OPTION" -> "option"
      [] tok = "Option" -> "option"
      [] OTHER -> tok

\* the first character of a token
FirstChar(tok) ==
    CASE tok \in LabelChars -> tok
      [] tok = "Choice" -> "C"
      [] Fold(tok) \in {"choice", "choose"} -> "c"
      [] Fold(tok) = "answer" -> "a"
      [] Fold(tok) = "decision" -> "d"
      [] OTHER -> ""

\* \s, and \w for the last character of a token ("x" is any other letter,
\* "." any other sign)
IsSpace(tok) == tok = " "
IsWordChar(tok) == tok \in LabelChars \/ tok = "x" \/ Fold(tok) \in Verbs

\* the end of \s* read from position i (greedy; no later part of a pattern
\* starts with a space, so nothing is given back)
RECURSIVE PastSpaces(_, _)
PastSpaces(text, i) ==
    IF i <= Len(text) /\ IsSpace(text[i]) THEN PastSpaces(text, i + 1) ELSE i

\* text.strip()
RECURSIVE lstrip(_)
lstrip(text) ==
    IF text # <<>> /\ IsSpace(Head(text)) THEN lstrip(Tail(text)) ELSE text

RECURSIVE rstrip(_)
rstrip(text) ==
    IF text # <<>> /\ IsSpace(text[Len(text)])
    THEN rstrip(SubSeq(text, 1, Len(text) - 1))
    ELSE text

strip(text) == rstrip(lstrip(text))

\* group(1) of each pattern matched at position i, "" when it does not match
\* there.  pattern1 = r'Choice:\s*Option\s+([ABCD])'
pattern1(text, i) ==
    LET j == PastSpaces(text, i + 2)
        k == PastSpaces(text, j + 1)
    IN  IF /\ i + 1 <= Len(text)
           /\ Fold(text[i]) = "choice"
           /\ text[i + 1] = ":"
           /\ j + 1 <= Len(text)
           /\ Fold(text[j]) = "option"
           /\ IsSpace(text[j + 1])
           /\ k <= Len(text)
           /\ FirstChar(text[k]) \in LabelChars
        THEN FirstChar(text[k])
        ELSE ""

\* pattern2 = r'\b([ABCD])\s*\)'
pattern2(text, i) ==
    LET j == PastSpaces(text, i + 1)
    IN  IF /\ text[i] \in LabelChars
           /\ (i = 1 \/ ~IsWordChar(text[i - 1]))
           /\ j <= Len(text)
           /\ text[j] = ")"
        THEN text[i]
        ELSE ""

\* pattern3 = r'(?:option|choice|select|answer|decision|recommendation|choose)\s+([ABCD])'
pattern3(text, i) ==
    LET k == PastSpaces(text, i + 1)
    IN  IF /\ Fold(text[i]) \in Verbs
           /\ i + 1 <= Len(text)
           /\ IsSpace(text[i + 1])
           /\ k <= Len(text)
           /\ FirstChar(text[k]) \in LabelChars
        THEN FirstChar(text[k])
        ELSE ""

\* re.search(pattern, text, re.IGNORECASE): the leftmost match, group(1) of
\* it; "" stands for no match (a group is never empty)
re_search(pattern(_, _), text) ==
    LET starts == {i \in 1..Len(text) : pattern(text, i) # ""}
    IN  IF starts = {} THEN "" ELSE pattern(text, Min(starts))

extract_choice_second_first(a_text) ==
    IF a_text = <<>> THEN ""
    ELSE LET text == strip(a_text)
             match1 == re_search(pattern1, text)
             match2 == re_search(pattern2, text)
             match3 == re_search(pattern3, text)
         IN  IF match2 # "" THEN Upper(match2)
             ELSE IF match1 # "" THEN Upper(match1)
             ELSE IF match3 # "" THEN Upper(match3)
             ELSE ""

\* extract_choice; None and "" are both the empty text
extract_choice(a_text) ==
    IF a_text = <<>> THEN ""
    ELSE LET text == strip(a_text)
             match1 == re_search(pattern1, text)
             match2 == re_search(pattern2, text)
             match3 == re_search(pattern3, text)
         IN  IF match1 # "" THEN Upper(match1)
             ELSE IF match2 # "" THEN Upper(match2)
             ELSE IF match3 # "" THEN Upper(match3)
             ELSE ""

\* The texts: every sequence of ChoiceTokens up to MaxChoiceLen, up to
\* MaxFragments phrases one after another, and three sample responses.
ChoiceTokens == {"A", "b", "Choice", "option", "answer", ":", " ", ")", "x", "."}

ChoiceFragments ==
    {<<"Choice", ":", " ", "Option", " ", "B">>,
     <<"choice", ":", "OPTION", " ", " ", "d">>,
     <<"Choice", ":", " ", "Option", "C">>,
     <<"A", ")">>,
     <<"c", " ", ")">>,
     <<"x", "a", ")">>,
     <<"select", " ", "D">>,
     <<"recommendation", " ", "a">>,
     <<"decision", "b">>,
     <<"option", " ", "choose">>,
     <<" ">>, <<".">>, <<"x">>}

RECURSIVE Phrases(_)
Phrases(n) ==
    IF n = 0 THEN {<<>>}
    ELSE LET shorter == Phrases(n - 1)
         IN  shorter \cup {s \o f : s \in shorter, f \in ChoiceFragments}

SampleTexts ==
    {<<"Choice", ":", " ", "Option", " ", "B">>,                          \* Choice: Option B
     <<"x", " ", "x", "c", "x", "d", " ", "option", " ", "C">>,           \* I recommend option C
     <<"x", " ", "c", "x", "a", "x", " ", "answer", " ", "x">>}           \* no clear answer here

ChoiceTexts == SeqsUpTo(ChoiceTokens, MaxChoiceLen) \cup Phrases(MaxFragments) \cup SampleTexts

ChoiceOthers == <<cfg, JobFrame, loop, call, EvalFrame, os_environ, jobs, rt, request,
                  running_experiments>>

InitChoice ==
    /\ cfg = OneUnitConfig
    /\ JobAtRest
    /\ loop = NoLoop
    /\ call = NewCall("none")
    /\ ev_in = [ok |-> TRUE, text |-> <<>>]
    /\ ev_out = [done |-> FALSE]
    /\ os_environ = <<>>
    /\ jobs = <<>>
    /\ rt = <<>>
    /\ ch \in {[text |-> t, done |-> FALSE] : t \in ChoiceTexts}
    /\ request = <<>>
    /\ running_experiments = {}

\* choice = extract_choice(response.response)
ExtractChoice ==
    /\ ~ch.done
    /\ ch' = [text |-> ch.text, done |-> TRUE, choice |-> extract_choice(ch.text)]
    /\ UNCHANGED ChoiceOthers

NextChoice == ExtractChoice

SpecChoice == InitChoice /\ [][NextChoice]_vars

(***************************************************************************)
(* POST /api/experiments/run (src/api_server.py lines 175-226), and the    *)
(* first statements of the worker thread it starts.  A string of the       *)
(* request is the sequence of its parts between "/" ("" is <<>>); a        *)
(* temperature is counted in tenths.  As in Spec there is one job: the     *)
(* requests received after one was accepted are requests the handler       *)
(* rejects.                                                                *)
(***************************************************************************)
start_required_fields == <<"OPENROUTER_API_KEY", "RESPONSE_MODEL_1", "RESPONSE_MODEL_2", "JUDGE_MODEL">>

\* not x, for a string or a list
Falsy(x) == x = <<>>

\* str.lower
Lower(part) ==
    CASE part = "OpenAI" -> "openai"
      [] part = "Anthropic" -> "anthropic"
      [] OTHER -> part

model_family_as_written(model) == Head(model)

\* data[field].split('/')[0].lower()
model_family(model) == Lower(Head(model))

\* data.get(key, default)
DataGet(data, key, default) == IF key \in DOMAIN data THEN data[key] ELSE default

\* run_experiment up to its return: the answer, and the env_vars of the
\* thread it starts (when it starts one)
start_answer(data) ==
    LET missing_fields ==
            SelectSeq(start_required_fields,
                      LAMBDA field : field \notin DOMAIN data \/ Falsy(data[field]))
        families == {model_family(data["RESPONSE_MODEL_1"]),
                     model_family(data["RESPONSE_MODEL_2"]),
                     model_family(data["JUDGE_MODEL"])}
        env_vars ==
            [OPENROUTER_API_KEY |-> data["OPENROUTER_API_KEY"],
             RESPONSE_MODEL_1 |-> data["RESPONSE_MODEL_1"],
             RESPONSE_MODEL_2 |-> data["RESPONSE_MODEL_2"],
             JUDGE_MODEL |-> data["JUDGE_MODEL"],
             SCENARIOS |-> DataGet(data, "SCENARIOS", <<>>),
             ROLES |-> DataGet(data, "ROLES", <<>>),
             NUM_ITERATIONS |-> DataGet(data, "NUM_ITERATIONS", 3),
             RESPONSE_TEMPERATURE |-> DataGet(data, "RESPONSE_TEMPERATURE", 1),
             JUDGE_TEMPERATURE |-> DataGet(data, "JUDGE_TEMPERATURE", 0)]
    IN  IF missing_fields # <<>>
        THEN [code |-> 400, error |-> "Missing required fields", fields |-> missing_fields]
        ELSE IF Cardinality(families) < 3
        THEN [code |-> 400, error |-> "All three models must be from different LLM families",
              families |-> families]
        ELSE IF Falsy(env_vars.SCENARIOS) \/ Falsy(env_vars.ROLES)
        THEN [code |-> 400, error |-> "Please select at least one scenario and role"]
        ELSE [code |-> 200, experiment_id |-> JobId, status |-> "started", env_vars |-> env_vars]

\* The request bodies: three model names of four, one of them also empty,
\* two of one family written in different case; scenario and role
\* selections empty or not; and each of these with one key left out.
StartKeys ==
    {"OPENROUTER_API_KEY", "RESPONSE_MODEL_1", "RESPONSE_MODEL_2", "JUDGE_MODEL", "SCENARIOS",
     "ROLES", "NUM_ITERATIONS", "RESPONSE_TEMPERATURE", "JUDGE_TEMPERATURE"}

FullBodies ==
    [OPENROUTER_API_KEY : {<<"sk-or-key">>},
     RESPONSE_MODEL_1 : {<<"openai", "gpt">>, <<"anthropic", "claude">>},
     RESPONSE_MODEL_2 : {<<"OpenAI", "o3">>, <<"anthropic", "claude">>, <<"llama">>},
     JUDGE_MODEL : {<<"google", "gemini">>, <<"Anthropic", "claude">>, <<>>},
     SCENARIOS : {<<>>, <<"s1">>},
     ROLES : {<<>>, <<"r1", "r2">>},
     NUM_ITERATIONS : {2},
     RESPONSE_TEMPERATURE : {7},
     JUDGE_TEMPERATURE : {0}]

Without(data, key) == [k \in DOMAIN data \ {key} |-> data[k]]

StartBodies ==
    FullBodies \cup
    {Without(d, key) : d \in {b \in FullBodies : b.SCENARIOS # <<>> /\ b.ROLES # <<>>},
                       key \in StartKeys}

StartOthers ==
    <<spc, stop_resp, results, RunnerLocals, budget, hist, EvalFrame, os_environ, jobs, rt, ch>>

InitStart ==
    /\ cfg = OneUnitConfig
    /\ JobAtRest
    /\ loop = NoLoop
    /\ call = NewCall("none")
    /\ ev_in = [ok |-> TRUE, text |-> <<>>]
    /\ ev_out = [done |-> FALSE]
    /\ os_environ = <<>>
    /\ jobs = <<>>
    /\ rt = <<>>
    /\ ch = <<>>
    /\ request = [n |-> 0]
    /\ running_experiments = {}

\* run_experiment, the whole handler: a rejected request returns before the
\* thread is made; an accepted one starts the worker (at line 57, with the
\* env_vars of the answer as its argument) and records the thread.
Start(data) ==
    LET answer == start_answer(data)
    IN  /\ request.n < MaxRequests
        /\ answer.code = 200 => running_experiments = {}
        /\ request' = [n |-> request.n + 1, data |-> data, answer |-> answer]
        /\ IF answer.code = 200
           THEN /\ wpc' = "l57"
                /\ running_experiments' = running_experiments \cup {answer.experiment_id}
           ELSE UNCHANGED <<wpc, running_experiments>>
        /\ UNCHANGED <<cfg, experiment_status, experiment_stop_flags, StartOthers>>

NextStart ==
    \/ \E data \in StartBodies : Start(data)
    \/ WRegister
    \/ WClearFlag

SpecStart == InitStart /\ [][NextStart]_vars

(***************************************************************************)
(* run_experiment_with_progress alone (src/experiment_runner.py lines      *)
(* 105-231), called with a progress_callback and with a stop_flag that is  *)
(* any callable: its answer may change between two polls, in either        *)
(* direction.  The runs are those of at most MaxScenarios units a model.   *)
(***************************************************************************)
RunnerConfigs ==
    {c \in Configs :
        /\ c.mode = "server"
        /\ c.num_iterations * Len(c.scenarios) * Len(c.roles) <= MaxScenarios}

RunnerOthers ==
    <<cfg, wpc, spc, stop_resp, experiment_status, results, RunnerLocals, hist, EvalFrame, OtherFrames>>

InitRunner ==
    /\ cfg \in RunnerConfigs
    /\ wpc = "r_model"
    /\ spc = "idle"
    /\ stop_resp = 0
    /\ experiment_status =
           [j \in {JobId} |->
               DictUpdate(InitializingStatus,
                          [total |-> total_experiments, status |-> "running",
                           message |-> "Starting experiment..."])]
    /\ experiment_stop_flags = [j \in {JobId} |-> FALSE]
    /\ results = {}
    /\ loop = NoLoop
    /\ current = 0
    /\ responses = <<>>
    /\ response_text = <<>>
    /\ experiment_run = NoRun
    /\ call = NewCall("none")
    /\ budget = [faults |-> 0, bad |-> 0, stops |-> 0]
    /\ hist = NoHist
    /\ ev_in = [ok |-> TRUE, text |-> <<>>]
    /\ ev_out = [done |-> FALSE]
    /\ OthersAtRest

\* stop_flag: Callable that returns True if experiment should stop; what it
\* returns is up to the caller.
StopFlagChanges ==
    /\ wpc \notin {"l121", "done"}
    /\ budget.stops < MaxFlips
    /\ budget' = [budget EXCEPT !.stops = @ + 1]
    /\ experiment_stop_flags' = [j \in DOMAIN experiment_stop_flags |-> ~experiment_stop_flags[j]]
    /\ UNCHANGED RunnerOthers

NextRunner ==
    \/ RModel \/ RScenario \/ RRole \/ RIteration \/ RProgress
    \/ (\E outcome \in {Fault(c) : c \in FaultCauses} \cup GenReplies : RGenerate(outcome))
    \/ RPoll
    \/ (\E outcome \in {Fault(c) : c \in FaultCauses} \cup {GoodJudgeReply} \cup BadJudgeReplies :
            REvaluate(outcome))
    \/ RReturn
    \/ StopFlagChanges

SpecRunner == InitRunner /\ [][NextRunner]_vars

(***************************************************************************)
(* GET /api/experiments/<run_id>/response/<response_id> (src/api_server.py *)
(* lines 342-381) on a persisted run.  A string is the sequence of its     *)
(* parts between "_" ("a_b" is <<"a", "b">>), so that joining strings with *)
(* "_" is the concatenation of their sequences and two strings are equal   *)
(* exactly when their sequences are.  The ids hold no "%": unquote leaves  *)
(* such a response_id as it is.  The run is the nested product of its      *)
(* lists, which name no id twice.                                          *)
(***************************************************************************)
KeyScenarioIds == {<<"a">>, <<"a", "b">>}
KeyRoleIds == {<<"c">>, <<"b", "c">>}
KeyModels == <<<<"openai/gpt">>, <<"anthropic/claude">>>>

\* str(iteration)
IterationStr(n) == <<<<"1">>, <<"2">>>>[n]

NoRepeat(seq) == \A i, j \in 1..Len(seq) : seq[i] = seq[j] => i = j

KeyRunConfigs ==
    [scenarios : {q \in NonEmptySeqs(KeyScenarioIds, MaxScenarios) : NoRepeat(q)},
     roles : {q \in NonEmptySeqs(KeyRoleIds, MaxScenarios) : NoRepeat(q)},
     num_iterations : 1..MaxIterations]

\* The responses of a completed run of c, in the runner's order.
RunOf(c) ==
    LET N == c.num_iterations
        R == Len(c.roles)
        S == Len(c.scenarios)
    IN  [u \in 1..(Len(KeyModels) * S * R * N) |->
            [scenario_id |-> c.scenarios[(((u - 1) \div (N * R)) % S) + 1],
             role_id |-> c.roles[(((u - 1) \div N) % R) + 1],
             model |-> KeyModels[((u - 1) \div (N * R * S)) + 1],
             iteration |-> ((u - 1) % N) + 1,
             response |-> <<"text", u>>]]

\* f"{response.scenario_id}_{response.role_id}_{response.model}_{response.iteration}"
response_key(response) ==
    response.scenario_id \o response.role_id \o response.model
        \o IterationStr(response.iteration)

\* get_response_detail: the first response of the run whose key equals the
\* response_id, or 404.
get_response_detail(run, response_id) ==
    LET hits == {i \in 1..Len(run) : response_key(run[i]) = response_id}
    IN  IF hits = {} THEN [code |-> 404]
        ELSE [code |-> 200, id |-> response_key(run[Min(hits)]),
              scenario |-> run[Min(hits)].scenario_id, role |-> run[Min(hits)].role_id,
              full_model |-> run[Min(hits)].model, iteration |-> run[Min(hits)].iteration,
              response |-> run[Min(hits)].response]

KeyOthers ==
    <<cfg, JobFrame, loop, call, EvalFrame, os_environ, jobs, rt, ch, running_experiments>>

InitKey ==
    /\ cfg = OneUnitConfig
    /\ JobAtRest
    /\ loop = NoLoop
    /\ call = NewCall("none")
    /\ ev_in = [ok |-> TRUE, text |-> <<>>]
    /\ ev_out = [done |-> FALSE]
    /\ os_environ = <<>>
    /\ jobs = <<>>
    /\ rt \in {[run |-> RunOf(c)] : c \in KeyRunConfigs}
    /\ ch = <<>>
    /\ request = [n |-> 0]
    /\ running_experiments = {}

\* A client asks for the response it saw at position u of the results
\* table, by the id the table gave it (line 306).
GetResponseDetail(u) ==
    /\ request.n = 0
    /\ request' = [n |-> 1, of |-> u, response_id |-> response_key(rt.run[u]),
                   answer |-> get_response_detail(rt.run, response_key(rt.run[u]))]
    /\ UNCHANGED KeyOthers

\* A request with an id no table gave.
GetUnknownResponse ==
    /\ request.n = 0
    /\ request' = [n |-> 1, of |-> 0, response_id |-> <<"x">>,
                   answer |-> get_response_detail(rt.run, <<"x">>)]
    /\ UNCHANGED KeyOthers

NextKey ==
    \/ \E u \in 1..Len(rt.run) : GetResponseDetail(u)
    \/ GetUnknownResponse

SpecKey == InitKey /\ [][NextKey]_vars

(***************************************************************************)
(* Properties.                                                             *)
(***************************************************************************)
\* The work units of a run in nested-product order, by position: models
\* outermost, then scenarios, then roles, then iterations 1..N.
UnitKey(c, u) ==
    LET N == c.num_iterations
        R == Len(c.roles)
        S == Len(c.scenarios)
        z == u - 1
    IN  <<c.models[(z \div (N * R * S)) + 1],
          c.scenarios[((z \div (N * R)) % S) + 1],
          c.roles[((z \div N) % R) + 1],
          (z % N) + 1>>

Key(r) == <<r.model, r.scenario_id, r.role_id, r.iteration>>

IsPrefixOfUnits(rs, k) ==
    /\ Len(rs) = k
    /\ \A u \in 1..k : Key(rs[u]) = UnitKey(cfg, u)

AllNeutral(e) ==
    /\ e.rationality = 3
    /\ e.comprehensiveness = 3
    /\ e.analytical_depth = 3
    /\ e.integrity = 3
    /\ e.bias_mitigation = 3

\* C1: when the stop flag turns true between two work units (after unit k
\* was appended, before the poll that opens unit k+1) and stays true, the
\* run that run_experiment_with_progress returns holds exactly the
\* responses of the first k units.
C1_StopBetweenUnitsKeepsK ==
    (experiment_run.returned /\ hist.stop_set /\ hist.stop_between)
        => IsPrefixOfUnits(experiment_run.run.responses, hist.stop_k)

C1_Witness ==
    /\ experiment_run.returned
    /\ hist.stop_set
    /\ hist.stop_between
    /\ hist.stop_k >= 1
    /\ hist.stop_k < total_experiments
    /\ Len(experiment_run.run.responses) = hist.stop_k

\* C2: a run that was neither stopped nor failed holds one response per
\* (model, scenario, role, iteration), in nested-product order; for
\* M=[m1,m2], S=[s1,s2], R=[r1], N=2 that is the listed sequence of eight.
ExampleConfig ==
    /\ cfg.models = <<GptModel, ClaudeModel>>
    /\ cfg.scenarios = <<"s1", "s2">>
    /\ cfg.roles = <<"r1">>
    /\ cfg.num_iterations = 2

ExampleOrder ==
    <<<<GptModel, "s1", "r1", 1>>, <<GptModel, "s1", "r1", 2>>,
      <<GptModel, "s2", "r1", 1>>, <<GptModel, "s2", "r1", 2>>,
      <<ClaudeModel, "s1", "r1", 1>>, <<ClaudeModel, "s1", "r1", 2>>,
      <<ClaudeModel, "s2", "r1", 1>>, <<ClaudeModel, "s2", "r1", 2>>>>

C2_CompleteRunInNestedOrder ==
    (experiment_run.returned /\ ~StopFlag)
        => LET rs == experiment_run.run.responses
           IN  /\ IsPrefixOfUnits(rs, total_experiments)
               /\ ExampleConfig => [u \in 1..Len(rs) |-> Key(rs[u])] = ExampleOrder

C2_Witness ==
    /\ experiment_run.returned
    /\ ~StopFlag
    /\ ExampleConfig
    /\ Len(experiment_run.run.responses) = 8

\* C3, what the judge text is, read off the text itself.
JudgeText == ev_in.text
Blank == \A i \in 1..Len(JudgeText) : JudgeText[i].k = "ws"
HasObject ==
    \E i, j \in 1..Len(JudgeText) : i < j /\ JudgeText[i].k = "lb" /\ JudgeText[j].k = "rb"
Parsed == json_loads(extract_json(JudgeText))
AllFieldsPresent == Parsed.ok /\ RequiredSet \subseteq DOMAIN Parsed.data
Convertible(v) == v.t \in {"num", "numstr", "bool"}
Numeric(v) == v.t \in {"num", "numstr"}
JudgeValue(v) == IF v.t = "bool" THEN (IF v.b THEN 1 ELSE 0) ELSE v.n
NeutralWith(msgs) ==
    /\ ~ev_out.result.raised
    /\ AllNeutral(ev_out.result.scores)
    /\ ev_out.result.scores.overall_justification.t = "evalerr"
    /\ ev_out.result.scores.overall_justification.e \in msgs

\* C3 (as amended): evaluate_response never raises; an empty or
\* whitespace-only text, a text without a JSON object, malformed JSON, a
\* missing field, and a field value float() rejects (a non-numeric string,
\* null, a list) each give the all-3.0 default with a justification naming
\* the error; an object whose five fields float() converts (numbers, numeric
\* strings and booleans) gives the converted values.
C3_ExtractionDegradesToNeutral ==
    (ev_out.done /\ ev_in.ok)
        => /\ ~ev_out.result.raised
           /\ Blank => NeutralWith({"Empty response from judge model"})
           /\ (~Blank /\ ~HasObject)
                => NeutralWith({"Could not extract JSON from judge response"})
           /\ (~Blank /\ HasObject /\ ~Parsed.ok)
                => NeutralWith({"Invalid JSON in judge response"})
           /\ (~Blank /\ HasObject /\ Parsed.ok /\ ~AllFieldsPresent)
                => NeutralWith({"Missing required fields in evaluation"})
           /\ (~Blank /\ HasObject /\ AllFieldsPresent
                 /\ \E f \in RequiredSet : ~Convertible(Parsed.data[f]))
                => NeutralWith({"could not convert string to float",
                                "float() argument must be a string or a real number"})
           /\ (~Blank /\ HasObject /\ AllFieldsPresent
                 /\ \A f \in RequiredSet : Convertible(Parsed.data[f]))
                => /\ \A f \in RequiredSet :
                        ev_out.result.scores[f] = JudgeValue(Parsed.data[f])
                   /\ ev_out.result.scores.overall_justification.t # "evalerr"

C3_Witness ==
    /\ ev_out.done
    /\ ev_in.ok
    /\ ~Blank /\ HasObject /\ AllFieldsPresent
    /\ \E f \in RequiredSet : Parsed.data[f].t = "str"
    /\ NeutralWith({"could not convert string to float"})

\* C3 as stated: every non-numeric field value gives the all-3.0 default.
C3_NonNumericGivesNeutral ==
    (ev_out.done /\ ev_in.ok /\ ~Blank /\ HasObject /\ AllFieldsPresent
       /\ \E f \in RequiredSet : ~Numeric(Parsed.data[f]))
        => /\ ~ev_out.result.raised
           /\ AllNeutral(ev_out.result.scores)

\* C4: the step in which a judge call fails appends the unit with the
\* neutral default, moves on to the next iteration and leaves the job's
\* status record as it was.
JudgeCallFails ==
    /\ wpc = "r_eval"
    /\ call'.done
    /\ ~generate_response(call'.result).ok

C4_JudgeFailureIsAbsorbed ==
    [][JudgeCallFails
         => /\ Len(responses') = Len(responses) + 1
            /\ SubSeq(responses', 1, Len(responses)) = responses
            /\ Key(responses'[Len(responses')])
                 = <<cfg.models[loop.mi], cfg.scenarios[loop.si], cfg.roles[loop.ri], loop.it>>
            /\ AllNeutral(responses'[Len(responses')].evaluation)
            /\ responses'[Len(responses')].evaluation.overall_justification.t = "evalerr"
            /\ wpc' = "r_iter"
            /\ loop' = [loop EXCEPT !.it = @ + 1]
            /\ experiment_status' = experiment_status]_vars

C4_Witness ==
    /\ wpc = "r_iter"
    /\ call.who = "judge"
    /\ call.done
    /\ ~call.result.ok
    /\ call.result.kind = "RemoteError"
    /\ Len(responses) >= 2
    /\ AllNeutral(responses[Len(responses)].evaluation)

\* C5: the step in which a generation call fails appends nothing and ends
\* the worker: the server's job gets status error with the cause as its
\* error; once ended, the worker starts nothing further.
GenerationCallFails ==
    /\ wpc = "r_gen"
    /\ call'.done
    /\ ~generate_response(call'.result).ok

Ended == wpc \in {"done", "crashed"}

C5_GenerationFailureEndsRun ==
    [][/\ GenerationCallFails
            => /\ Ended'
               /\ results' = results
               /\ experiment_run' = experiment_run
               /\ cfg.mode = "server"
                    => /\ wpc' = "done"
                       /\ experiment_status'[JobId].status = "error"
                       /\ experiment_status'[JobId].error = generate_response(call'.result).msg
       /\ Ended => (wpc' = wpc /\ call' = call /\ responses' = responses)]_vars

C5_Witness ==
    /\ wpc = "done"
    /\ hist.failed
    /\ hist.fail_k >= 1
    /\ call.who = "gen"
    /\ ~call.result.ok
    /\ call.result.kind = "NetworkExhausted"
    /\ Status.status = "error"
    /\ Status.error = call.result.msg

\* C6 as stated: after a failure that followed k completed units, those k
\* responses are in the returned or the persisted run.
C6_FailedRunKeepsResponses ==
    (hist.failed /\ hist.fail_k >= 1)
        => \/ experiment_run.returned /\ Len(experiment_run.run.responses) = hist.fail_k
           \/ \E run \in results : Len(run.responses) = hist.fail_k

\* C7 as stated: a job that ends stopped after k >= 1 completed units has
\* its run, with those k responses, serialized.
C7_StoppedRunIsSerialized ==
    (/\ wpc = "done" /\ Registered /\ Status.status = "stopped"
     /\ experiment_run.returned /\ Len(experiment_run.run.responses) >= 1)
        => experiment_run.run \in results

\* C8: a call makes at most 3 attempts; every attempt but the last ended in
\* a transient fault, so an attempt that got an HTTP response is the last;
\* a status other than 2xx and 400 gives the caller an error.
LastOutcome == call.log[Len(call.log)].out

TwoFaultsThenSuccess ==
    /\ call.done
    /\ Len(call.log) = 3
    /\ call.log[1].out.o = "fault"
    /\ call.log[2].out.o = "fault"
    /\ call.log[3].out.o = "http"
    /\ call.log[3].out.status \in 200..299

C9_ThirdAttemptSucceedsAfterSix ==
    TwoFaultsThenSuccess
        => /\ call.result.ok
           /\ call.result.json = call.log[3].out.body
           /\ call.waited >= 6
           /\ call.log[1].slept + call.log[2].slept = call.waited

C9_Witness == TwoFaultsThenSuccess /\ call.result.ok /\ call.result.json.choices

\* C10: three transient faults end the call with the network error that
\* carries the attempt count 3 and the cause of the last fault; there is no
\* fourth attempt, and a unit issues each of its two requests once.
ThreeFaults ==
    /\ Len(call.log) = 3
    /\ \A i \in 1..3 : call.log[i].out.o = "fault"

C10_ExhaustionIsTerminal ==
    /\ ThreeFaults
         => /\ call.done
            /\ ~call.result.ok
            /\ call.result.kind = "NetworkExhausted"
            /\ call.result.attempts = 3
            /\ call.result.cause = call.log[3].out.cause
            /\ call.result.msg = NetworkErrorMsg(call.log[3].out.cause)
    /\ Len(call.log) <= 3
    /\ hist.gen_calls <= 1
    /\ hist.judge_calls <= 1
    /\ (call.done /\ ~call.result.ok /\ call.who = "gen") => Ended
    /\ (call.done /\ ~call.result.ok /\ call.who = "judge") => wpc = "r_iter"

C10_Witness ==
    /\ ThreeFaults
    /\ call.done
    /\ call.log[1].out.cause # call.log[3].out.cause
    /\ call.result.cause = "ReadTimeout"

\* C11 as stated: the attempt that gets a 400 response is the last and is
\* not slept on; the call ends in the BadRequest error, which carries the
\* remote error type and message (when the body gives them) and the model,
\* and whose message is not that of exhausted retries.
BadRequestReply ==
    /\ call.done
    /\ call.log # <<>>
    /\ LastOutcome.o = "http"
    /\ LastOutcome.status = 400

RemoteError == LastOutcome.body.error

C11_BadRequestIsTranslated ==
    BadRequestReply
        => /\ call.log[Len(call.log)].slept = 0
           /\ ~call.result.ok
           /\ call.result.exc = "ValueError"
           /\ call.result.kind = "BadRequest"
           /\ call.result.msg \notin {NetworkErrorMsg(c) : c \in FaultCauses}
           /\ call.result.model = call.model
           /\ ("error" \in DOMAIN LastOutcome.body /\ RemoteError.t = "object"
                 /\ "type" \in DOMAIN RemoteError.m)
                => call.result.error_type = RemoteError.m["type"]
           /\ ("error" \in DOMAIN LastOutcome.body /\ RemoteError.t = "object"
                 /\ "message" \in DOMAIN RemoteError.m)
                => call.result.error_message = RemoteError.m["message"]

\* C12 as stated: the status of a job changes only along initializing ->
\* running -> {completed | stopping -> stopped | error}, and initializing
\* -> stopping; never from stopping back to running, and never away from
\* completed, stopped or error.
StatusEdges ==
    {<<"initializing", "running">>, <<"initializing", "stopping">>,
     <<"running", "completed">>, <<"running", "stopping">>, <<"running", "error">>,
     <<"stopping", "stopped">>}

TerminalStatuses == {"completed", "stopped", "error"}

StatusChanges ==
    /\ Registered
    /\ JobId \in DOMAIN experiment_status'
    /\ experiment_status'[JobId].status # Status.status

C12_StatusFollowsEdges ==
    [][StatusChanges
         => /\ <<Status.status, experiment_status'[JobId].status>> \in StatusEdges
            /\ ~(Status.status = "stopping" /\ experiment_status'[JobId].status = "running")
            /\ Status.status \notin TerminalStatuses]_vars

\* C13 as stated: under fair scheduling a job whose status becomes stopping
\* eventually has status stopped, and no job stays stopping forever.
IsStopping == Registered /\ Status.status = "stopping"
IsStopped == Registered /\ Status.status = "stopped"

C13_StoppingLeadsToStopped ==
    /\ IsStopping ~> IsStopped
    /\ ~<>[]IsStopping

\* C14: a stop request is accepted only if the status it reads is
\* initializing or running; an accepted request sets the stop flag true,
\* then the status to stopping, and answers 200 only after both; a request
\* for an unknown id (404) or for any other status (400) changes neither
\* the stop flags nor the status records.
StopDecides == spc = "idle" /\ budget'.stops = budget.stops + 1
StopAccepted == StopDecides /\ spc' = "l247"
StopRejected == StopDecides /\ spc' = "idle"
Stoppable == Registered /\ Status.status \in {"initializing", "running"}

C14_StopOnlyWhenActive ==
    [][/\ StopAccepted => Stoppable
       /\ StopRejected
            => /\ ~Stoppable
               /\ stop_resp' = IF Registered THEN 400 ELSE 404
               /\ experiment_status' = experiment_status
               /\ experiment_stop_flags' = experiment_stop_flags
       /\ (spc = "l247" /\ spc' # spc)
            => /\ spc' = "l248"
               /\ experiment_stop_flags'[JobId] = TRUE
       /\ (spc = "l248" /\ spc' # spc)
            => /\ spc' = "l249"
               /\ experiment_status'[JobId].status = "stopping"
       /\ (spc = "l249" /\ spc' # spc)
            => /\ spc' = "idle"
               /\ stop_resp' = 200]_vars

C14_Witness ==
    /\ spc = "idle"
    /\ stop_resp = 200
    /\ StopFlag
    /\ Status.status = "stopping"
    /\ wpc \in {"r_gen", "r_eval"}

\* C15 as stated: a status query never finds a record with part of an
\* update applied: not status running with the initializing message or
\* without the total, and not status stopping with the message that came
\* before the stop request.
Snapshot == get_experiment_status.body

C15_NoHalfWrittenSnapshot ==
    get_experiment_status.code = 200
        => /\ Snapshot.status = "running"
                => /\ Snapshot.message # "Initializing..."
                   /\ Snapshot.total = total_experiments
           /\ (Snapshot.status = "stopping" /\ "message" \in DOMAIN Snapshot)
                => Snapshot.message \notin {"Initializing...", "Starting experiment..."}

\* C16 as stated: every status snapshot of a job, whatever its state,
\* carries a message.
C16_SnapshotCarriesMessage ==
    get_experiment_status.code = 200 => "message" \in DOMAIN Snapshot

\* C17 as stated: the generation model, judge model and iteration count a
\* job runs with are those of its own start config, however its worker
\* interleaves with another job's.
ConfigKey ==
    [gpt_model |-> "RESPONSE_MODEL_1", num_iterations |-> "NUM_ITERATIONS",
     judge_model |-> "JUDGE_MODEL"]

RanWith(j) == jobs[j].ph \in {"restore", "done"} /\ ~jobs[j].failed

C17_JobUsesOwnConfig ==
    \A j \in EnvJobs :
        RanWith(j) => \A f \in RunnerFields : jobs[j].runner[f] = Val(j, ConfigKey[f])

\* some number inside v is NaN
RECURSIVE HasNaN(_)
HasNaN(v) ==
    CASE v.py = "nan" -> TRUE
      [] v.py \in {"obj", "dict"} -> \E f \in DOMAIN v.fields : HasNaN(v.fields[f])
      [] v.py = "list" -> \E i \in DOMAIN v.items : HasNaN(v.items[i])
      [] OTHER -> FALSE

\* C18 as stated: a run written by to_json and read back by from_json equals
\* the original, for any run with zero or more responses, with or without
\* evaluations.
C18_RoundTripAnyRun ==
    rt.phase = "loaded" => PyEq(rt.loaded, rt.run)

\* C18, amended: a run in which no score is NaN, written by to_json and read
\* back by from_json, equals the original: run_id, timestamp and config, and
\* the same responses in order, each with its timestamp and its evaluation
\* or none.
C18_RoundTrip ==
    (rt.phase = "loaded" /\ ~HasNaN(rt.run))
        => /\ PyEq(rt.loaded, rt.run)
           /\ Len(rt.loaded.fields.responses.items) = Len(rt.run.fields.responses.items)
           /\ \A i \in DOMAIN rt.run.fields.responses.items :
                LET a == rt.run.fields.responses.items[i]
                    b == rt.loaded.fields.responses.items[i]
                IN  /\ PyEq(b.fields.timestamp, a.fields.timestamp)
                    /\ PyEq(b.fields.evaluation, a.fields.evaluation)

C18_Witness ==
    /\ rt.phase = "loaded"
    /\ ~HasNaN(rt.run)
    /\ Len(rt.run.fields.responses.items) = 2
    /\ rt.run.fields.responses.items[1].fields.evaluation = PyNone
    /\ rt.run.fields.responses.items[2].fields.evaluation # PyNone
    /\ rt.run.fields.responses.items[2].fields.timestamp # PyStr(WrittenAt)
    /\ PyEq(rt.loaded, rt.run)

\* the labels a pattern captures somewhere in a text
Captures(pattern(_, _), text) == {pattern(text, i) : i \in 1..Len(text)} \ {""}

\* C19: extract_choice never raises; it returns the upper-cased label
\* captured by the first of 'Choice: Option X', 'X)' and 'verb X', in this
\* order, that matches anywhere in the text, wherever a later pattern
\* matches, and "" when none matches.  'Choice: Option B' gives 'B',
\* 'I recommend option C' gives 'C', 'no clear answer here' gives ''.
C19_FirstPatternWins ==
    ch # <<>> /\ ch.done =>
        LET c1 == Captures(pattern1, ch.text)
            c2 == Captures(pattern2, ch.text)
            c3 == Captures(pattern3, ch.text)
        IN  /\ ch.choice \in {"", "A", "B", "C", "D"}
            /\ c1 # {} => \E c \in c1 : ch.choice = Upper(c)
            /\ (c1 = {} /\ c2 # {}) => \E c \in c2 : ch.choice = Upper(c)
            /\ (c1 = {} /\ c2 = {} /\ c3 # {}) => \E c \in c3 : ch.choice = Upper(c)
            /\ (c1 = {} /\ c2 = {} /\ c3 = {}) => ch.choice = ""
            /\ ch.text = <<"Choice", ":", " ", "Option", " ", "B">> => ch.choice = "B"
            /\ ch.text = <<"x", " ", "x", "c", "x", "d", " ", "option", " ", "C">>
                   => ch.choice = "C"
            /\ ch.text = <<"x", " ", "c", "x", "a", "x", " ", "answer", " ", "x">>
                   => ch.choice = ""

\* an 'X)' and a 'verb X' come first in the text, with other labels than the
\* 'Choice: Option X' that follows and is returned
C19_Witness ==
    /\ ch # <<>> /\ ch.done
    /\ \E i, j, k \in 1..Len(ch.text) :
          /\ i < k /\ j < k
          /\ pattern2(ch.text, i) # ""
          /\ pattern3(ch.text, j) # ""
          /\ pattern1(ch.text, k) # ""
          /\ Upper(pattern2(ch.text, i)) # ch.choice
          /\ Upper(pattern3(ch.text, j)) # ch.choice
          /\ Upper(pattern1(ch.text, k)) = ch.choice

\* what the claim names: the three models of a request are of fewer than
\* three families, or a selection is empty or absent
Present(data, key) == key \in DOMAIN data /\ data[key] # <<>>

FewFamilies(data) ==
    /\ \A key \in {"RESPONSE_MODEL_1", "RESPONSE_MODEL_2", "JUDGE_MODEL"} : Present(data, key)
    /\ \E k1, k2 \in {"RESPONSE_MODEL_1", "RESPONSE_MODEL_2", "JUDGE_MODEL"} :
          k1 # k2 /\ Lower(data[k1][1]) = Lower(data[k2][1])

EmptySelection(data) == ~Present(data, "SCENARIOS") \/ ~Present(data, "ROLES")

NoJob ==
    /\ wpc = "done"
    /\ running_experiments = {}
    /\ DOMAIN experiment_status = {}
    /\ DOMAIN experiment_stop_flags = {}

\* C20: a start request whose three models are of fewer than three
\* families, or whose scenario or role selection is empty, is answered 400
\* and starts nothing: the worker, the thread registry, the status and the
\* stop flags are as before; while only such requests have come there is no
\* worker and no status or stop-flag entry.
C20_RejectedStartsNothing ==
    /\ [][(request'.n # request.n
              /\ (FewFamilies(request'.data) \/ EmptySelection(request'.data)))
            => /\ request'.answer.code = 400
               /\ UNCHANGED <<wpc, running_experiments, experiment_status,
                              experiment_stop_flags>>]_vars
    /\ [](running_experiments = {} => NoJob)

\* two requests rejected, the last for openai and OpenAI being one family
C20_Witness ==
    /\ request.n = 2
    /\ FewFamilies(request.data)
    /\ ~EmptySelection(request.data)
    /\ request.data["RESPONSE_MODEL_1"][1] # request.data["RESPONSE_MODEL_2"][1]
    /\ request.data["RESPONSE_MODEL_1"][1] # request.data["JUDGE_MODEL"][1]
    /\ request.data["RESPONSE_MODEL_2"][1] # request.data["JUDGE_MODEL"][1]
    /\ request.answer.code = 400
    /\ NoJob

\* C21: within one run no two responses share the key (scenario_id,
\* role_id, model, iteration), whatever lists the run was started with.
C21_KeysAreUnique ==
    \A i, j \in DOMAIN responses :
        i # j => <<responses[i].scenario_id, responses[i].role_id, responses[i].model,
                   responses[i].iteration>>
                 # <<responses[j].scenario_id, responses[j].role_id, responses[j].model,
                     responses[j].iteration>>

\* C25: once a poll of the cancellation predicate has returned true, no
\* further work unit is started and no generation or judge call is made in
\* that run, whatever the predicate returns afterwards.
C25_UnwindsOnceSeen ==
    hist.stop_seen => wpc \notin {"r_progress", "r_gen", "r_poll", "r_eval"}

\* C22: the progress callback reports, as its current count, the number of
\* work units completed at the moment it is invoked: right after an
\* invocation the reported count equals the number of responses appended.
C22_CountIsCompleted ==
    (cfg.mode = "server" /\ wpc = "r_gen" /\ call.log = <<>>) => current = Len(responses)

RECURSIVE SumOf(_)
SumOf(pairs) == IF pairs = <<>> THEN 0 ELSE float(Head(pairs).v).n + SumOf(Tail(pairs))

\* The object selected from a judge text is {five fields}: the five required
\* fields, once each, every value a number.
FiveFieldObject(span) ==
    LET o == StripWs(span)
    IN  /\ Len(o) = 3
        /\ o[1].k = "lb" /\ o[2].k = "body" /\ o[3].k = "rb"
        /\ Len(o[2].m) = Len(required_fields)
        /\ {o[2].m[i].f : i \in 1..Len(o[2].m)} = RequiredSet
        /\ \A i \in 1..Len(o[2].m) : o[2].m[i].v.t = "num"

FieldsOf(text) == StripWs(extract_json(text))[2].m

\* C23: for a valid five-field judge output the average score of the
\* extracted scores is the arithmetic mean of the five field values, and
\* it is the same for every ordering of the five fields in the object.
C23_AverageIsMean ==
    (ev_out.done /\ ev_in.ok /\ FiveFieldObject(extract_json(ev_in.text))) =>
        LET b == FieldsOf(ev_in.text)
            avg == average_score(ev_out.result.scores)
        IN  /\ avg = Fifths(SumOf(b))
            /\ \A p \in Orders(Len(b)) :
                  average_score(evaluate_response(
                      [ok |-> TRUE, text |-> <<Tok("lb"), Body(Reordered(b, p)), Tok("rb")>>]).scores)
                    = avg

C23_Witness ==
    /\ ev_out.done /\ ev_in.ok
    /\ FiveFieldObject(extract_json(ev_in.text))
    /\ FieldsOf(ev_in.text)[1].f = "bias_mitigation"
    /\ FieldsOf(ev_in.text)[5].f = "comprehensiveness"
    /\ average_score(ev_out.result.scores) = [whole |-> 3, fifths |-> 1]

\* C24: when the cancellation predicate is true at the poll that follows a
\* unit's generation call, the unit is left there: no judge call is started
\* for it and nothing is appended to the responses.
C24_StoppedUnitIsDropped ==
    [][(wpc = "r_poll" /\ StopPolled /\ wpc' # wpc)
          => /\ wpc' = "r_role"
             /\ call'.who # "judge"
             /\ hist'.judge_calls = 0
             /\ responses' = responses]_vars

C24_Witness ==
    /\ wpc = "r_role"
    /\ hist.stop_seen
    /\ response_text # <<>>
    /\ hist.gen_calls = 1
    /\ hist.judge_calls = 0
    /\ Len(responses) >= 1
    /\ Len(responses) < total_experiments

\* C26: at every point of a run and in the record it returns, the responses
\* are the first units of the nested-product sequence, in that order; a
\* step of the run leaves the list as it is or appends one response to it.
C26_ResponsesArePrefix ==
    [][/\ IsPrefixOfUnits(responses', Len(responses'))
       /\ experiment_run'.returned
            => /\ experiment_run'.run.responses = responses'
               /\ IsPrefixOfUnits(experiment_run'.run.responses, Len(responses'))
       /\ responses' # responses
            => \/ /\ Len(responses') = Len(responses) + 1
                  /\ SubSeq(responses', 1, Len(responses)) = responses
               \/ hist'.failed /\ wpc' \in {"done", "crashed"}]_vars

\* C27: the total is the product of the lengths of the three lists and the
\* iteration count and every progress callback of a run carries it; the
\* current count is 1 at the first callback and one more at each later one,
\* changes at no other step of a running run, and never exceeds the
\* total; the stored percentage lies within 0..100.
CallbackStep == cfg.mode = "server" /\ wpc = "r_progress" /\ wpc' = "r_gen"

C27_TotalFixedCountRises ==
    [][/\ CallbackStep
            => /\ current' = current + 1
               /\ current' >= 1
               /\ current' <= total_experiments
               /\ Status'.current = current'
               /\ Status'.total
                    = Len(cfg.models) * Len(cfg.scenarios) * Len(cfg.roles) * cfg.num_iterations
               /\ Status'.progress \in 0..100
       /\ (cfg.mode = "server" /\ ~CallbackStep /\ current' # current)
            => (hist'.failed /\ current' = 0)
       /\ (Registered /\ "progress" \in DOMAIN Status) => Status.progress \in 0..100]_vars

C27_Witness ==
    /\ cfg.mode = "server"
    /\ wpc = "r_gen"
    /\ total_experiments = 4
    /\ current = 3
    /\ Status.current = 3
    /\ Status.total = 4
    /\ Status.progress = 75

\* C28: _extract_json returns the span of the first stage that matches, in
\* the order fenced object, first object with at most one level of nested
\* braces, widest span; a later stage's span is returned only when every
\* earlier stage has no match, and the empty string only when none matches.
StageSpans(text) == <<FencedObject(text), NestedObject(text), WidestObject(text)>>
Matching(text) == {k \in 1..Len(StageSpans(text)) : StageSpans(text)[k] # <<>>}

C28_FirstMatchingStage ==
    (ev_out.done /\ ev_in.ok) =>
        LET t == ev_in.text
        IN  /\ Matching(t) # {} => extract_json(t) = StageSpans(t)[Min(Matching(t))]
            /\ extract_json(t) = <<>> <=> Matching(t) = {}

C28_Witness ==
    /\ ev_out.done /\ ev_in.ok
    /\ Matching(ev_in.text) = {2, 3}
    /\ NestedObject(ev_in.text) # WidestObject(ev_in.text)
    /\ extract_json(ev_in.text) = NestedObject(ev_in.text)
    /\ ~ev_out.result.raised
    /\ ev_out.result.scores.rationality = 4
    /\ ev_out.result.scores.overall_justification = Str("")

\* C29: when the span of the first matching stage does not parse as JSON
\* or lacks a required field, the result is the neutral default, also when
\* the span of a later stage is a valid object with the five fields.
Parses(span) == json_loads(span).ok
Complete(span) == Parses(span) /\ RequiredSet \subseteq DOMAIN json_loads(span).data
FirstSpan(text) == StageSpans(text)[Min(Matching(text))]

C29_NoLaterStage ==
    (ev_out.done /\ ev_in.ok /\ Matching(ev_in.text) # {} /\ ~Complete(FirstSpan(ev_in.text)))
        => /\ ~ev_out.result.raised
           /\ AllNeutral(ev_out.result.scores)
           /\ ev_out.result.scores.overall_justification.t = "evalerr"

C29_Witness ==
    /\ ev_out.done /\ ev_in.ok
    /\ Matching(ev_in.text) = {2, 3}
    /\ Parses(NestedObject(ev_in.text))
    /\ ~Complete(NestedObject(ev_in.text))
    /\ Complete(WidestObject(ev_in.text))
    /\ AllNeutral(ev_out.result.scores)
    /\ ev_out.result.scores.overall_justification
         = EvaluationError("Missing required fields in evaluation")

FinalStatus == Registered /\ Status.status \in {"completed", "stopped", "error"}

C31_RunEndsInFinalStatus ==
    /\ <>Ended
    /\ [](current <= total_experiments /\ Len(call.log) <= max_retries)
    /\ []((cfg.mode = "server" /\ wpc = "done" /\ spc = "idle") => FinalStatus)

\* C32: a response is appended only by the step in which the unit's judge
\* call returns, after its generation call has returned; the appended record
\* holds the generated text and an evaluation that is not None; the records
\* appended before stay as they are.
Appends == Len(responses') = Len(responses) + 1

C32_AppendedAfterBothCalls ==
    [][/\ Appends
            => /\ wpc = "r_eval"
               /\ call.who = "judge" /\ ~call.done /\ call'.done
               /\ hist.gen_calls = 1 /\ hist.judge_calls = 1
               /\ response_text # <<>>
               /\ LET r == responses'[Len(responses')]
                  IN  /\ r.response = response_text
                      /\ r.evaluation # Null
                      /\ \A f \in RequiredSet : f \in DOMAIN r.evaluation
               /\ SubSeq(responses', 1, Len(responses)) = responses
       /\ (~Appends /\ responses' # responses) => (hist'.failed /\ Ended')]_vars

C32_Witness ==
    /\ Len(responses) = 2
    /\ wpc = "r_iter"
    /\ responses[1].evaluation.overall_justification.t = "evalerr"
    /\ responses[2].evaluation.rationality = 4
    /\ responses[2].evaluation.overall_justification.t # "evalerr"

\* C33: once a stop request has been answered with success, the job's stop
\* flag is true for as long as the worker runs, and the job's status is
\* never completed.
C33_AcceptedStopIsKept ==
    stop_resp = 200
        => /\ ~Ended => StopFlag
           /\ ~(Registered /\ Status.status = "completed")

\* C34: for a job id that start has issued, a status request and a stop
\* request find the job's record at any later time: neither answers 404.
C34_IssuedIdIsKnown ==
    JobId \in running_experiments
        => /\ get_experiment_status.code # 404
           /\ JobId \in DOMAIN experiment_status

\* C35: whenever the job's status is completed, a run is persisted that
\* holds exactly as many responses as the product of the lengths of the
\* three lists and the iteration count, and the status record holds that
\* total as current and as total, progress 100 and the run's run_id.
C35_CompletedMeansWholeRun ==
    (Registered /\ Status.status = "completed")
        => /\ Status.current
                = Len(cfg.models) * Len(cfg.scenarios) * Len(cfg.roles) * cfg.num_iterations
           /\ Status.total = Status.current
           /\ Status.progress = 100
           /\ \E run \in results :
                 /\ run.run_id = Status.run_id
                 /\ Len(run.responses) = Status.total
                 /\ run = experiment_run.run

C35_Witness ==
    /\ Registered
    /\ Status.status = "completed"
    /\ Status.total = 4
    /\ \E run \in results : Len(run.responses) = 4
    /\ stop_resp = 400

\* C36: when every job has ended, each environment variable the jobs wrote
\* has the value it had before the first job started (here: not set).
AllJobsEnded == \A j \in EnvJobs : jobs[j].ph = "done"

C36_EnvironmentRestored ==
    AllJobsEnded => \A k \in AllEnvKeys : os_environ[k] = None

\* C37: two responses of a run with different (scenario_id, role_id,
\* model, iteration) have different keys, also when ids contain
\* underscores, and a request for the key built from a response is
\* answered with that response.
KeyTuple(response) ==
    <<response.scenario_id, response.role_id, response.model, response.iteration>>

C37_KeyIdentifiesResponse ==
    (request.n = 1 /\ request.of # 0)
        => /\ \A i \in 1..Len(rt.run) :
                 KeyTuple(rt.run[i]) # KeyTuple(rt.run[request.of])
                     => response_key(rt.run[i]) # request.response_id
           /\ request.answer.code = 200
           /\ request.answer.response = rt.run[request.of].response
           /\ request.answer.scenario = rt.run[request.of].scenario_id
           /\ request.answer.role = rt.run[request.of].role_id


====
